---- MODULE Spec2Model ----
(***************************************************************************)
(* State-machine model of the health backend (HealthService on top of a    *)
(* relational store reached through Prisma).  Every awaited store call of  *)
(* a handler is one atomic step of the request that runs it; the           *)
(* synchronous code in front of the call belongs to the same step.  A      *)
(* request is a process p with a program counter req[p].pc.                *)
(*                                                                         *)
(* Fields of DailyHealthData that no handler computes with (steps, the     *)
(* heart-rate and energy fields) and the Exercise / LocationPoint children *)
(* of a workout are left out: they are copied through unchanged.           *)
(***************************************************************************)
EXTENDS Integers, Sequences, FiniteSets, TLC

\* ---------------------------------------------------------------- bounds
MaxProcs == 2
MaxCal == 2
MaxMeals == 2
MaxWorkouts == 1
MaxWater == 1
MaxGlasses == 1
MaxTotal == 3
MaxTime == 4
MaxDates == 2
MaxUsers == 2
MaxBasket == 2
MaxItems == 3
MaxQuantity == 2
MaxBatch == 2
MaxFood == 5
MaxPosts == 1
MaxComments == 1
MaxScore == 1
\* clock ticks per hour: times are integers, an hour is TicksPerHour ticks
TicksPerHour == 3
\* getWeeklyHealthData reads seven days
WeekLen == 7

Procs == 1..MaxProcs
SeqProcs == {1}
Calories == 0..MaxCal
PosCalories == 1..MaxCal
Glasses == 0..MaxGlasses

\* null / undefined of the source, and a present value v
Null == <<>>
Some(v) == <<v>>
Val(o) == o[1]

VARIABLES daily, meals, workouts, waterEntries, sessions, ids, now, req,
          foodItems, basketItems, fids,
          posts, likes, comments, friends, sids, challenges, enrollments

vars == <<daily, meals, workouts, waterEntries, sessions, ids, now, req,
          foodItems, basketItems, fids,
          posts, likes, comments, friends, sids, challenges, enrollments>>
\* the tables of the health service, and those of the food service
dbvars == <<daily, meals, workouts, waterEntries, sessions, ids>>
foodvars == <<foodItems, basketItems, fids>>
\* the tables of the feed service and of the challenge service
feedvars == <<posts, likes, comments, friends, sids>>
challengevars == <<challenges, enrollments>>
socialvars == <<feedvars, challengevars>>

\* ------------------------------------------------------------ requests
Idle ==
  [op |-> "none", pc |-> "idle", user |-> 0, date |-> 0, val |-> Null,
   val2 |-> Null, val3 |-> Null, id |-> 0, dailyId |-> 0, old |-> 0,
   total |-> 0, sess |-> Null, exp |-> Null, at |-> 0, ret |-> Null, result |-> "none",
   query |-> Null, items |-> <<>>, prog |-> <<>>, err |-> Null,
   allowed |-> {}, existing |-> Null, toDelete |-> {}]

Free(p) == req[p].pc \in {"idle", "done"}

Begin(p, o, pc0, u, d) ==
  [Idle EXCEPT !.op = o, !.pc = pc0, !.user = u, !.date = d]

\* a finished request keeps its operation, what it returned, when, and how it
\* ended; its locals are released
Finish(r, res) ==
  [Idle EXCEPT !.op = r.op, !.pc = "done", !.ret = r.ret, !.at = now,
               !.result = res]

Set(p, r) == req' = [req EXCEPT ![p] = r]

\* --------------------------------------------------------------- store
RowsOf(table, u, d) == {r \in table : r.user = u /\ r.date = d}
ById(table, i) == {r \in table : r.id = i}
Row(table, i) == CHOOSE r \in table : r.id = i
Replace(table, old, new) == (table \ {old}) \cup {new}

RECURSIVE SumOf(_, _)
SumOf(S, f) ==
  IF S = {} THEN 0
  ELSE LET x == CHOOSE y \in S : TRUE IN x[f] + SumOf(S \ {x}, f)

MealsOf(i) == {m \in meals : m.dailyHealthDataId = i}
WorkoutsOf(i) == {w \in workouts : w.dailyHealthDataId = i}
WaterOf(i) == {w \in waterEntries : w.dailyHealthDataId = i}
SessionsOf(i) == {s \in sessions : s.dailyHealthDataId = i}

EmptyStore ==
  /\ daily = {}
  /\ meals = {}
  /\ workouts = {}
  /\ waterEntries = {}
  /\ sessions = {}
  /\ ids = [daily |-> 0, meal |-> 0, workout |-> 0, water |-> 0, session |-> 0]

EmptyFood ==
  /\ foodItems = {}
  /\ basketItems = {}
  /\ fids = [food |-> 0, basket |-> 0]

EmptySocial ==
  /\ posts = {}
  /\ likes = {}
  /\ comments = {}
  /\ friends = {}
  /\ sids = [post |-> 0, comment |-> 0, challenge |-> 0, enrollment |-> 0]
  /\ challenges = {}
  /\ enrollments = {}

Init ==
  /\ EmptyStore
  /\ EmptyFood
  /\ EmptySocial
  /\ now = 0
  /\ req = [p \in Procs |-> Idle]

\* JavaScript truthiness of a nullable number: null, undefined and 0 are falsy
Truthy(o) == o # Null /\ Val(o) # 0

\* Math.round of a non-negative duration given in ticks, in whole hours
Round(t) == (2 * t + TicksPerHour) \div (2 * TicksPerHour)

\* ------------------------------------------------- getDailyHealthData
\* findUnique({userId_date}, include: {..., fastingSession: true})
Include(row) ==
  [id |-> row.id,
   caloriesConsumed |-> row.caloriesConsumed,
   caloriesBurned |-> row.caloriesBurned,
   waterIntake |-> row.waterIntake,
   fastingSession |->
     IF SessionsOf(row.id) = {} THEN Null
     ELSE Some(CHOOSE s \in SessionsOf(row.id) : TRUE)]

\* the rows findUnique may return for (u, d): Null when there is none
FindDaily(u, d) ==
  IF RowsOf(daily, u, d) = {} THEN {Null}
  ELSE {Some(Include(row)) : row \in RowsOf(daily, u, d)}

\* line 36 and 41: an active session with a target whose time is up
Expired(s, t) ==
  /\ s.endTime = Null
  /\ Truthy(s.targetDuration)
  /\ t - s.startTime >= Val(s.targetDuration) * TicksPerHour

MustAutoComplete(data, t) ==
  /\ data # Null
  /\ Val(data).fastingSession # Null
  /\ Expired(Val(Val(data).fastingSession), t)

AddOps == {"addMeal", "addWaterEntry", "addWorkout"}

\* a start that does not look for an active session
StartCheck_NoCheck(r, data) == [r EXCEPT !.pc = "createSession", !.dailyId = data.id]

\* startFastingSession, lines 727-730, on the aggregate it loaded or created
StartCheck(r, data) ==
  IF data.fastingSession # Null /\ Val(data.fastingSession).endTime = Null
  THEN Finish(r, "Conflict")
  ELSE [r EXCEPT !.pc = "createSession", !.dailyId = data.id]

\* endFastingSession, lines 765-776: the checks, then endTime = new Date()
EndCheck(r, data) ==
  IF data = Null THEN Finish(r, "NotFound")
  ELSE IF Val(data).fastingSession = Null THEN Finish(r, "NoSession")
  ELSE IF Val(Val(data).fastingSession).endTime # Null THEN Finish(r, "Conflict")
  ELSE [r EXCEPT !.pc = "endUpdate", !.dailyId = Val(data).id,
                 !.sess = Val(data).fastingSession, !.at = now]

\* what a handler does with the aggregate getDailyHealthData returned
AfterGet(r, data) ==
  CASE r.op = "getDaily" ->
         Finish([r EXCEPT !.ret = data], IF data = Null THEN "NotFound" ELSE "ok")
    [] r.op = "endFasting" -> EndCheck(r, data)
    [] data = Null -> [r EXCEPT !.pc = "createDaily"]
    [] r.op \in AddOps -> [r EXCEPT !.pc = "createChild", !.dailyId = Val(data).id]
    [] r.op = "startFasting" -> StartCheck(r, Val(data))
    [] OTHER -> [r EXCEPT !.pc = "sessUpsertFind", !.dailyId = Val(data).id]

\* lines 8-41: the first findUnique and the test for auto-completion
GetFind(p) ==
  /\ req[p].pc = "get"
  /\ \E data \in FindDaily(req[p].user, req[p].date) :
       IF MustAutoComplete(data, now)
       THEN Set(p, [req[p] EXCEPT !.pc = "getUpdate", !.at = now,
                                  !.exp = Val(data).fastingSession])
       ELSE Set(p, AfterGet(req[p], data))
  /\ UNCHANGED <<dbvars, now, foodvars, socialvars>>

\* lines 43-49: fastingSession.update, endTime = now of line 37, capped duration
GetAutoComplete(p) ==
  /\ req[p].pc = "getUpdate"
  /\ LET s == Val(req[p].exp) IN
       IF ById(sessions, s.id) = {}
       THEN /\ Set(p, Finish(req[p], "P2025"))
            /\ UNCHANGED sessions
       ELSE /\ sessions' = Replace(sessions, Row(sessions, s.id),
                 [Row(sessions, s.id) EXCEPT !.endTime = Some(req[p].at),
                                             !.duration = Val(s.targetDuration)])
            /\ Set(p, [req[p] EXCEPT !.pc = "getRefetch", !.exp = Null, !.at = 0])
  /\ UNCHANGED <<daily, meals, workouts, waterEntries, ids, now, foodvars, socialvars>>

\* lines 52-77: the second findUnique, returned as it is
GetRefetch(p) ==
  /\ req[p].pc = "getRefetch"
  /\ \E data \in FindDaily(req[p].user, req[p].date) : Set(p, AfterGet(req[p], data))
  /\ UNCHANGED <<dbvars, now, foodvars, socialvars>>

\* a unique index on (userId, date): findUnique({userId_date}) needs one
DailyKeyTaken(u, d) == RowsOf(daily, u, d) # {}

\* after dailyHealthData.create: the new row, no children, no session
AfterCreate(r, i) ==
  CASE r.op \in AddOps -> [r EXCEPT !.pc = "createChild", !.dailyId = i]
    [] r.op = "startFasting" -> [r EXCEPT !.pc = "createSession", !.dailyId = i]
    [] OTHER -> [r EXCEPT !.pc = "sessUpsertFind", !.dailyId = i]

\* lines 329-351 (and 458, 508, 703, 807): create the zeroed aggregate; a
\* unique violation is thrown to the caller, no handler catches it
CreateDaily(p) ==
  /\ req[p].pc = "createDaily"
  /\ IF DailyKeyTaken(req[p].user, req[p].date)
     THEN /\ Set(p, Finish(req[p], "P2002 userId_date"))
          /\ UNCHANGED <<daily, ids>>
     ELSE /\ daily' = daily \cup
                {[id |-> ids.daily + 1, user |-> req[p].user, date |-> req[p].date,
                  caloriesConsumed |-> 0, caloriesBurned |-> 0, waterIntake |-> 0]}
          /\ ids' = [ids EXCEPT !.daily = @ + 1]
          /\ Set(p, AfterCreate(req[p], ids.daily + 1))
  /\ UNCHANGED <<meals, workouts, waterEntries, sessions, now, foodvars, socialvars>>

\* the running totals explored: a step that would leave the range waits
InRange(x) == x \in (0 - MaxTotal)..MaxTotal

\* ------------------------------------------------------------- addMeal
InFlight(o) == Cardinality({q \in Procs : req[q].op = o /\ req[q].pc # "done"})

addMeal(p, u, d, c) ==
  /\ Free(p)
  /\ ids.meal + InFlight("addMeal") < MaxMeals
  /\ Set(p, [Begin(p, "addMeal", "get", u, d) EXCEPT !.val = Some(c)])
  /\ UNCHANGED <<dbvars, now, foodvars, socialvars>>

\* lines 353-364: meal.create, with its foreign key to the aggregate
CreateMeal(p) ==
  /\ req[p].pc = "createChild"
  /\ req[p].op = "addMeal"
  /\ IF ById(daily, req[p].dailyId) = {}
     THEN /\ Set(p, Finish(req[p], "P2003"))
          /\ UNCHANGED <<meals, ids>>
     ELSE /\ meals' = meals \cup
                {[id |-> ids.meal + 1, dailyHealthDataId |-> req[p].dailyId,
                  calories |-> Val(req[p].val)]}
          /\ ids' = [ids EXCEPT !.meal = @ + 1]
          /\ Set(p, [req[p] EXCEPT !.pc = "increment", !.id = ids.meal + 1])
  /\ UNCHANGED <<daily, workouts, waterEntries, sessions, now, foodvars, socialvars>>

\* lines 366-376: caloriesConsumed: {increment}, atomic in the store
IncrementConsumed(p) ==
  /\ req[p].pc = "increment"
  /\ \A row \in ById(daily, req[p].dailyId) : InRange(row.caloriesConsumed + Val(req[p].val))
  /\ req[p].op = "addMeal"
  /\ IF ById(daily, req[p].dailyId) = {}
     THEN /\ Set(p, Finish(req[p], "P2025"))
          /\ UNCHANGED daily
     ELSE /\ daily' = Replace(daily, Row(daily, req[p].dailyId),
                [Row(daily, req[p].dailyId) EXCEPT
                   !.caloriesConsumed = @ + Val(req[p].val)])
          /\ Set(p, Finish(req[p], "ok"))
  /\ UNCHANGED <<meals, workouts, waterEntries, sessions, ids, now, foodvars, socialvars>>

\* ---------------------------------------------------------- updateMeal
\* u is the authenticated user of the request, which the controller does not
\* pass on; c is mealData.calories: Null when the field is omitted
updateMeal(p, u, i, c) ==
  /\ Free(p)
  /\ Set(p, [Begin(p, "updateMeal", "findChild", u, 0) EXCEPT !.id = i, !.val = c])
  /\ UNCHANGED <<dbvars, now, foodvars, socialvars>>

\* line 391: mealData.calories || oldCalories
NewCalories(c, oldCalories) == IF Truthy(c) THEN Val(c) ELSE oldCalories

\* lines 382-390
UpdateMealFind(p) ==
  /\ req[p].pc = "findChild"
  /\ req[p].op = "updateMeal"
  /\ IF ById(meals, req[p].id) = {}
     THEN Set(p, Finish(req[p], "NotFound"))
     ELSE Set(p, [req[p] EXCEPT !.pc = "writeChild",
                    !.old = Row(meals, req[p].id).calories,
                    !.dailyId = Row(meals, req[p].id).dailyHealthDataId])
  /\ UNCHANGED <<dbvars, now, foodvars, socialvars>>

\* lines 393-407: meal.update (an undefined field is left as it is), then the
\* test oldCalories !== newCalories
UpdateMealWrite(p) ==
  /\ req[p].pc = "writeChild"
  /\ req[p].op = "updateMeal"
  /\ IF ById(meals, req[p].id) = {}
     THEN /\ Set(p, Finish(req[p], "P2025"))
          /\ UNCHANGED meals
     ELSE /\ meals' = Replace(meals, Row(meals, req[p].id),
                [Row(meals, req[p].id) EXCEPT
                   !.calories = IF req[p].val = Null THEN @ ELSE Val(req[p].val)])
          /\ IF req[p].old # NewCalories(req[p].val, req[p].old)
             THEN Set(p, [req[p] EXCEPT !.pc = "findTotal"])
             ELSE Set(p, Finish(req[p], "ok"))
  /\ UNCHANGED <<daily, workouts, waterEntries, sessions, ids, now, foodvars, socialvars>>

\* lines 408-412: read the aggregate
UpdateMealFindDaily(p) ==
  /\ req[p].pc = "findTotal"
  /\ req[p].op = "updateMeal"
  /\ IF ById(daily, req[p].dailyId) = {}
     THEN Set(p, Finish(req[p], "ok"))
     ELSE Set(p, [req[p] EXCEPT !.pc = "writeTotal",
                    !.total = Row(daily, req[p].dailyId).caloriesConsumed])
  /\ UNCHANGED <<dbvars, now, foodvars, socialvars>>

\* lines 413-418: write the total computed from the value read
UpdateMealTotal(p) ==
  /\ req[p].pc = "writeTotal"
  /\ InRange(req[p].total - req[p].old + NewCalories(req[p].val, req[p].old))
  /\ req[p].op = "updateMeal"
  /\ IF ById(daily, req[p].dailyId) = {}
     THEN /\ Set(p, Finish(req[p], "P2025"))
          /\ UNCHANGED daily
     ELSE /\ daily' = Replace(daily, Row(daily, req[p].dailyId),
                [Row(daily, req[p].dailyId) EXCEPT
                   !.caloriesConsumed =
                      req[p].total - req[p].old + NewCalories(req[p].val, req[p].old)])
          /\ Set(p, Finish(req[p], "ok"))
  /\ UNCHANGED <<meals, workouts, waterEntries, sessions, ids, now, foodvars, socialvars>>

\* ---------------------------------------------------------- deleteMeal
deleteMeal(p, u, i) ==
  /\ Free(p)
  /\ Set(p, [Begin(p, "deleteMeal", "findChild", u, 0) EXCEPT !.id = i])
  /\ UNCHANGED <<dbvars, now, foodvars, socialvars>>

Max0(x) == IF x < 0 THEN 0 ELSE x

\* lines 426-432
DeleteMealFind(p) ==
  /\ req[p].pc = "findChild"
  /\ req[p].op = "deleteMeal"
  /\ IF ById(meals, req[p].id) = {}
     THEN Set(p, Finish(req[p], "NotFound"))
     ELSE Set(p, [req[p] EXCEPT !.pc = "writeChild",
                    !.old = Row(meals, req[p].id).calories,
                    !.dailyId = Row(meals, req[p].id).dailyHealthDataId])
  /\ UNCHANGED <<dbvars, now, foodvars, socialvars>>

\* lines 434-436: meal.delete
DeleteMealDelete(p) ==
  /\ req[p].pc = "writeChild"
  /\ req[p].op = "deleteMeal"
  /\ IF ById(meals, req[p].id) = {}
     THEN /\ Set(p, Finish(req[p], "P2025"))
          /\ UNCHANGED meals
     ELSE /\ meals' = meals \ ById(meals, req[p].id)
          /\ Set(p, [req[p] EXCEPT !.pc = "findTotal"])
  /\ UNCHANGED <<daily, workouts, waterEntries, sessions, ids, now, foodvars, socialvars>>

\* lines 439-443
DeleteMealFindDaily(p) ==
  /\ req[p].pc = "findTotal"
  /\ req[p].op = "deleteMeal"
  /\ IF ById(daily, req[p].dailyId) = {}
     THEN Set(p, Finish(req[p], "ok"))
     ELSE Set(p, [req[p] EXCEPT !.pc = "writeTotal",
                    !.total = Row(daily, req[p].dailyId).caloriesConsumed])
  /\ UNCHANGED <<dbvars, now, foodvars, socialvars>>

\* lines 444-449: Math.max(0, total read - meal.calories)
DeleteMealTotal(p) ==
  /\ req[p].pc = "writeTotal"
  /\ req[p].op = "deleteMeal"
  /\ IF ById(daily, req[p].dailyId) = {}
     THEN /\ Set(p, Finish(req[p], "P2025"))
          /\ UNCHANGED daily
     ELSE /\ daily' = Replace(daily, Row(daily, req[p].dailyId),
                [Row(daily, req[p].dailyId) EXCEPT
                   !.caloriesConsumed = Max0(req[p].total - req[p].old)])
          /\ Set(p, Finish(req[p], "ok"))
  /\ UNCHANGED <<meals, workouts, waterEntries, sessions, ids, now, foodvars, socialvars>>

\* ------------------------------------------------------- addWaterEntry
addWaterEntry(p, u, d, g) ==
  /\ Free(p)
  /\ ids.water + InFlight("addWaterEntry") < MaxWater
  /\ Set(p, [Begin(p, "addWaterEntry", "get", u, d) EXCEPT !.val = Some(g)])
  /\ UNCHANGED <<dbvars, now, foodvars, socialvars>>

\* lines 482-488: waterEntry.create
CreateWaterEntry(p) ==
  /\ req[p].pc = "createChild"
  /\ req[p].op = "addWaterEntry"
  /\ IF ById(daily, req[p].dailyId) = {}
     THEN /\ Set(p, Finish(req[p], "P2003"))
          /\ UNCHANGED <<waterEntries, ids>>
     ELSE /\ waterEntries' = waterEntries \cup
                {[id |-> ids.water + 1, dailyHealthDataId |-> req[p].dailyId,
                  glasses |-> Val(req[p].val)]}
          /\ ids' = [ids EXCEPT !.water = @ + 1]
          /\ Set(p, [req[p] EXCEPT !.pc = "increment", !.id = ids.water + 1])
  /\ UNCHANGED <<daily, meals, workouts, sessions, now, foodvars, socialvars>>

\* lines 490-500: waterIntake: {increment}
IncrementWater(p) ==
  /\ req[p].pc = "increment"
  /\ \A row \in ById(daily, req[p].dailyId) : InRange(row.waterIntake + Val(req[p].val))
  /\ req[p].op = "addWaterEntry"
  /\ IF ById(daily, req[p].dailyId) = {}
     THEN /\ Set(p, Finish(req[p], "P2025"))
          /\ UNCHANGED daily
     ELSE /\ daily' = Replace(daily, Row(daily, req[p].dailyId),
                [Row(daily, req[p].dailyId) EXCEPT
                   !.waterIntake = @ + Val(req[p].val)])
          /\ Set(p, Finish(req[p], "ok"))
  /\ UNCHANGED <<meals, workouts, waterEntries, sessions, ids, now, foodvars, socialvars>>

\* ------------------------------------------------------------- addWorkout
addWorkout(p, u, d, c) ==
  /\ Free(p)
  /\ ids.workout + InFlight("addWorkout") < MaxWorkouts
  /\ Set(p, [Begin(p, "addWorkout", "get", u, d) EXCEPT !.val = Some(c)])
  /\ UNCHANGED <<dbvars, now, foodvars, socialvars>>

\* lines 532-571: workout.create, with its foreign key to the aggregate
CreateWorkout(p) ==
  /\ req[p].pc = "createChild"
  /\ req[p].op = "addWorkout"
  /\ IF ById(daily, req[p].dailyId) = {}
     THEN /\ Set(p, Finish(req[p], "P2003"))
          /\ UNCHANGED <<workouts, ids>>
     ELSE /\ workouts' = workouts \cup
                {[id |-> ids.workout + 1, dailyHealthDataId |-> req[p].dailyId,
                  totalCaloriesBurned |-> Val(req[p].val)]}
          /\ ids' = [ids EXCEPT !.workout = @ + 1]
          /\ Set(p, [req[p] EXCEPT !.pc = "increment", !.id = ids.workout + 1])
  /\ UNCHANGED <<daily, meals, waterEntries, sessions, now, foodvars, socialvars>>

\* lines 573-583: caloriesBurned: {increment}, atomic in the store
IncrementBurned(p) ==
  /\ req[p].pc = "increment"
  /\ \A row \in ById(daily, req[p].dailyId) : InRange(row.caloriesBurned + Val(req[p].val))
  /\ req[p].op = "addWorkout"
  /\ IF ById(daily, req[p].dailyId) = {}
     THEN /\ Set(p, Finish(req[p], "P2025"))
          /\ UNCHANGED daily
     ELSE /\ daily' = Replace(daily, Row(daily, req[p].dailyId),
                [Row(daily, req[p].dailyId) EXCEPT
                   !.caloriesBurned = @ + Val(req[p].val)])
          /\ Set(p, Finish(req[p], "ok"))
  /\ UNCHANGED <<meals, workouts, waterEntries, sessions, ids, now, foodvars, socialvars>>

\* ---------------------------------------------------------- updateWorkout
\* u is the authenticated user of the request; c is
\* workoutData.totalCaloriesBurned: Null when the field is omitted
updateWorkout(p, u, i, c) ==
  /\ Free(p)
  /\ Set(p, [Begin(p, "updateWorkout", "findChild", u, 0) EXCEPT !.id = i, !.val = c])
  /\ UNCHANGED <<dbvars, now, foodvars, socialvars>>

\* line 599: workoutData.totalCaloriesBurned || oldCalories
NewBurned(c, oldCalories) == IF Truthy(c) THEN Val(c) ELSE oldCalories

\* lines 589-599
UpdateWorkoutFind(p) ==
  /\ req[p].pc = "findChild"
  /\ req[p].op = "updateWorkout"
  /\ IF ById(workouts, req[p].id) = {}
     THEN Set(p, Finish(req[p], "NotFound"))
     ELSE Set(p, [req[p] EXCEPT !.pc = "writeChild",
                    !.old = Row(workouts, req[p].id).totalCaloriesBurned,
                    !.dailyId = Row(workouts, req[p].id).dailyHealthDataId])
  /\ UNCHANGED <<dbvars, now, foodvars, socialvars>>

\* lines 609-651: workout.update, after the exercises and location points
\* are deleted (an undefined field is left as it is), then the
\* test oldCalories !== newCalories
UpdateWorkoutWrite(p) ==
  /\ req[p].pc = "writeChild"
  /\ req[p].op = "updateWorkout"
  /\ IF ById(workouts, req[p].id) = {}
     THEN /\ Set(p, Finish(req[p], "P2025"))
          /\ UNCHANGED workouts
     ELSE /\ workouts' = Replace(workouts, Row(workouts, req[p].id),
                [Row(workouts, req[p].id) EXCEPT
                   !.totalCaloriesBurned = IF req[p].val = Null THEN @ ELSE Val(req[p].val)])
          /\ IF req[p].old # NewBurned(req[p].val, req[p].old)
             THEN Set(p, [req[p] EXCEPT !.pc = "findTotal"])
             ELSE Set(p, Finish(req[p], "ok"))
  /\ UNCHANGED <<daily, meals, waterEntries, sessions, ids, now, foodvars, socialvars>>

\* lines 652-656: read the aggregate
UpdateWorkoutFindDaily(p) ==
  /\ req[p].pc = "findTotal"
  /\ req[p].op = "updateWorkout"
  /\ IF ById(daily, req[p].dailyId) = {}
     THEN Set(p, Finish(req[p], "ok"))
     ELSE Set(p, [req[p] EXCEPT !.pc = "writeTotal",
                    !.total = Row(daily, req[p].dailyId).caloriesBurned])
  /\ UNCHANGED <<dbvars, now, foodvars, socialvars>>

\* lines 657-662: write the total computed from the value read
UpdateWorkoutTotal(p) ==
  /\ req[p].pc = "writeTotal"
  /\ InRange(req[p].total - req[p].old + NewBurned(req[p].val, req[p].old))
  /\ req[p].op = "updateWorkout"
  /\ IF ById(daily, req[p].dailyId) = {}
     THEN /\ Set(p, Finish(req[p], "P2025"))
          /\ UNCHANGED daily
     ELSE /\ daily' = Replace(daily, Row(daily, req[p].dailyId),
                [Row(daily, req[p].dailyId) EXCEPT
                   !.caloriesBurned =
                      req[p].total - req[p].old + NewBurned(req[p].val, req[p].old)])
          /\ Set(p, Finish(req[p], "ok"))
  /\ UNCHANGED <<meals, workouts, waterEntries, sessions, ids, now, foodvars, socialvars>>

\* ---------------------------------------------------------- deleteWorkout
deleteWorkout(p, u, i) ==
  /\ Free(p)
  /\ Set(p, [Begin(p, "deleteWorkout", "findChild", u, 0) EXCEPT !.id = i])
  /\ UNCHANGED <<dbvars, now, foodvars, socialvars>>

\* lines 670-676
DeleteWorkoutFind(p) ==
  /\ req[p].pc = "findChild"
  /\ req[p].op = "deleteWorkout"
  /\ IF ById(workouts, req[p].id) = {}
     THEN Set(p, Finish(req[p], "NotFound"))
     ELSE Set(p, [req[p] EXCEPT !.pc = "writeChild",
                    !.old = Row(workouts, req[p].id).totalCaloriesBurned,
                    !.dailyId = Row(workouts, req[p].id).dailyHealthDataId])
  /\ UNCHANGED <<dbvars, now, foodvars, socialvars>>

\* lines 678-680: workout.delete
DeleteWorkoutDelete(p) ==
  /\ req[p].pc = "writeChild"
  /\ req[p].op = "deleteWorkout"
  /\ IF ById(workouts, req[p].id) = {}
     THEN /\ Set(p, Finish(req[p], "P2025"))
          /\ UNCHANGED workouts
     ELSE /\ workouts' = workouts \ ById(workouts, req[p].id)
          /\ Set(p, [req[p] EXCEPT !.pc = "findTotal"])
  /\ UNCHANGED <<daily, meals, waterEntries, sessions, ids, now, foodvars, socialvars>>

\* lines 683-687
DeleteWorkoutFindDaily(p) ==
  /\ req[p].pc = "findTotal"
  /\ req[p].op = "deleteWorkout"
  /\ IF ById(daily, req[p].dailyId) = {}
     THEN Set(p, Finish(req[p], "ok"))
     ELSE Set(p, [req[p] EXCEPT !.pc = "writeTotal",
                    !.total = Row(daily, req[p].dailyId).caloriesBurned])
  /\ UNCHANGED <<dbvars, now, foodvars, socialvars>>

\* lines 688-693: Math.max(0, total read - workout.totalCaloriesBurned)
DeleteWorkoutTotal(p) ==
  /\ req[p].pc = "writeTotal"
  /\ req[p].op = "deleteWorkout"
  /\ IF ById(daily, req[p].dailyId) = {}
     THEN /\ Set(p, Finish(req[p], "P2025"))
          /\ UNCHANGED daily
     ELSE /\ daily' = Replace(daily, Row(daily, req[p].dailyId),
                [Row(daily, req[p].dailyId) EXCEPT
                   !.caloriesBurned = Max0(req[p].total - req[p].old)])
          /\ Set(p, Finish(req[p], "ok"))
  /\ UNCHANGED <<meals, workouts, waterEntries, sessions, ids, now, foodvars, socialvars>>

\* ------------------------------------------------- saveDailyHealthData
\* cc, cb, wi: the totals of the request body (0 when omitted, lines 170-177)
saveDailyHealthData(p, u, d, cc, cb, wi) ==
  /\ Free(p)
  /\ Set(p, [Begin(p, "saveDaily", "upsertFind", u, d) EXCEPT
               !.val = Some(cc), !.val2 = Some(cb), !.val3 = Some(wi)])
  /\ UNCHANGED <<dbvars, now, foodvars, socialvars>>

\* what saveDailyHealthData returns: the totals of the row it wrote, and by
\* which of its writes
SaveReturn(r, path) ==
  [r EXCEPT !.ret = Some([caloriesConsumed |-> Val(r.val),
                          caloriesBurned |-> Val(r.val2),
                          waterIntake |-> Val(r.val3), path |-> path])]

\* the update / create data of lines 188-209
WithTotals(row, r) ==
  [row EXCEPT !.caloriesConsumed = Val(r.val), !.caloriesBurned = Val(r.val2),
              !.waterIntake = Val(r.val3)]

\* lines 181-187: upsert with a nested include is a read, then a write
SaveUpsertFind(p) ==
  /\ req[p].pc = "upsertFind"
  /\ Set(p, [req[p] EXCEPT !.pc = "upsertWrite",
               !.dailyId = IF DailyKeyTaken(req[p].user, req[p].date) THEN 1 ELSE 0])
  /\ UNCHANGED <<dbvars, now, foodvars, socialvars>>

\* lines 188-222: the update or the create of the upsert; the create of a key
\* another request created meanwhile throws P2002 into the catch block
SaveUpsertWrite(p) ==
  /\ req[p].pc = "upsertWrite"
  /\ LET rows == RowsOf(daily, req[p].user, req[p].date) IN
       IF req[p].dailyId # 0
       THEN /\ IF rows = {}
               THEN /\ Set(p, Finish(req[p], "P2025"))
                    /\ UNCHANGED daily
               ELSE /\ daily' = (daily \ rows) \cup {WithTotals(row, req[p]) : row \in rows}
                    /\ Set(p, Finish(SaveReturn(req[p], "update"), "ok"))
            /\ UNCHANGED ids
       ELSE IF rows # {}
       THEN /\ Set(p, [req[p] EXCEPT !.pc = "catchFind"])
            /\ UNCHANGED <<daily, ids>>
       ELSE /\ daily' = daily \cup
                  {WithTotals([id |-> ids.daily + 1, user |-> req[p].user,
                               date |-> req[p].date, caloriesConsumed |-> 0,
                               caloriesBurned |-> 0, waterIntake |-> 0], req[p])}
            /\ ids' = [ids EXCEPT !.daily = @ + 1]
            /\ Set(p, Finish(SaveReturn(req[p], "create"), "ok"))
  /\ UNCHANGED <<meals, workouts, waterEntries, sessions, now, foodvars, socialvars>>

\* a catch block that rethrows the unique violation
SaveCatchFind_Rethrow(p) ==
  /\ req[p].pc = "catchFind"
  /\ Set(p, Finish(req[p], "P2002 userId_date"))
  /\ UNCHANGED <<dbvars, now, foodvars, socialvars>>

\* lines 224-237: the catch block of a unique violation looks the row up
SaveCatchFind(p) ==
  /\ req[p].pc = "catchFind"
  /\ IF DailyKeyTaken(req[p].user, req[p].date)
     THEN Set(p, [req[p] EXCEPT !.pc = "catchUpdate"])
     ELSE Set(p, [req[p] EXCEPT !.pc = "dupFind"])
  /\ UNCHANGED <<dbvars, now, foodvars, socialvars>>

\* lines 238-266: and writes the totals to it
SaveCatchUpdate(p) ==
  /\ req[p].pc = "catchUpdate"
  /\ LET rows == RowsOf(daily, req[p].user, req[p].date) IN
       IF rows = {}
       THEN /\ Set(p, Finish(req[p], "P2025"))
            /\ UNCHANGED daily
       ELSE /\ daily' = (daily \ rows) \cup {WithTotals(row, req[p]) : row \in rows}
            /\ Set(p, Finish(SaveReturn(req[p], "catch"), "ok"))
  /\ UNCHANGED <<meals, workouts, waterEntries, sessions, ids, now, foodvars, socialvars>>

\* lines 267-282 and 320-321: the rows of the key, the oldest first (ids are
\* given in the order of creation); without any, the unique violation is
\* thrown again
SaveDupFind(p) ==
  /\ req[p].pc = "dupFind"
  /\ LET duplicates == RowsOf(daily, req[p].user, req[p].date) IN
       IF duplicates = {}
       THEN Set(p, Finish(req[p], "P2002 userId_date"))
       ELSE LET toKeep == CHOOSE r \in duplicates : \A x \in duplicates : r.id <= x.id
                toDelete == {x.id : x \in duplicates \ {toKeep}}
            IN Set(p, [req[p] EXCEPT
                         !.pc = IF toDelete # {} THEN "dupDelete" ELSE "dupUpdate",
                         !.dailyId = toKeep.id, !.toDelete = toDelete])
  /\ UNCHANGED <<dbvars, now, foodvars, socialvars>>

\* lines 284-290: deleteMany of the younger rows (what happens to their
\* children is the schema's onDelete rule)
SaveDupDelete(p) ==
  /\ req[p].pc = "dupDelete"
  /\ daily' = {r \in daily : r.id \notin req[p].toDelete}
  /\ Set(p, [req[p] EXCEPT !.pc = "dupUpdate"])
  /\ UNCHANGED <<meals, workouts, waterEntries, sessions, ids, now, foodvars, socialvars>>

\* lines 292-315: the totals are written to the oldest row
SaveDupUpdate(p) ==
  /\ req[p].pc = "dupUpdate"
  /\ IF ById(daily, req[p].dailyId) = {}
     THEN /\ Set(p, Finish(req[p], "P2025"))
          /\ UNCHANGED daily
     ELSE /\ daily' = Replace(daily, Row(daily, req[p].dailyId),
                              WithTotals(Row(daily, req[p].dailyId), req[p]))
          /\ Set(p, Finish(SaveReturn(req[p], "duplicates"), "ok"))
  /\ UNCHANGED <<meals, workouts, waterEntries, sessions, ids, now, foodvars, socialvars>>

\* ------------------------------------------------ startFastingSession
\* a session table without the unique index
SessionKeyTaken_NoIndex(i) == FALSE

\* a unique index on dailyHealthDataId: the relation is one-to-one and
\* fastingSession.upsert({where: {dailyHealthDataId}}) needs one
SessionKeyTaken(i) == SessionsOf(i) # {}

\* line 733 and 857: targetDuration ? Math.round(targetDuration) : null
TargetValue(tgt) == IF Truthy(tgt) THEN Some(Round(Val(tgt))) ELSE Null

\* ty: the type; tgt: targetDuration in ticks, Null when omitted
startFastingSession(p, u, d, ty, tgt) ==
  /\ Free(p)
  /\ Set(p, [Begin(p, "startFasting", "get", u, d) EXCEPT
               !.val = tgt, !.val2 = Some(ty)])
  /\ UNCHANGED <<dbvars, now, foodvars, socialvars>>

\* lines 732-758: fastingSession.create; any error is rethrown as a failure
CreateSession(p) ==
  /\ req[p].pc = "createSession"
  /\ IF ById(daily, req[p].dailyId) = {}
     THEN /\ Set(p, Finish(req[p], "P2003"))
          /\ UNCHANGED <<sessions, ids>>
     ELSE IF SessionKeyTaken(req[p].dailyId)
     THEN /\ Set(p, Finish(req[p], "P2002 dailyHealthDataId"))
          /\ UNCHANGED <<sessions, ids>>
     ELSE LET new == [id |-> ids.session + 1, dailyHealthDataId |-> req[p].dailyId,
                      type |-> Val(req[p].val2), startTime |-> now,
                      endTime |-> Null, duration |-> 0,
                      targetDuration |-> TargetValue(req[p].val)]
          IN /\ sessions' = sessions \cup {new}
             /\ ids' = [ids EXCEPT !.session = @ + 1]
             /\ Set(p, Finish([req[p] EXCEPT !.ret = Some(new)], "ok"))
  /\ UNCHANGED <<daily, meals, workouts, waterEntries, now, foodvars, socialvars>>

\* -------------------------------------------------- endFastingSession
endFastingSession(p, u, d) ==
  /\ Free(p)
  /\ Set(p, Begin(p, "endFasting", "get", u, d))
  /\ UNCHANGED <<dbvars, now, foodvars, socialvars>>

\* lines 777-789: endTime = now, duration = Math.round(elapsed hours)
EndUpdate(p) ==
  /\ req[p].pc = "endUpdate"
  /\ LET s == Val(req[p].sess) IN
       IF ById(sessions, s.id) = {}
       THEN /\ Set(p, Finish(req[p], "P2025"))
            /\ UNCHANGED sessions
       ELSE LET new == [Row(sessions, s.id) EXCEPT
                          !.endTime = Some(req[p].at),
                          !.duration = Round(req[p].at - s.startTime)]
            IN /\ sessions' = Replace(sessions, Row(sessions, s.id), new)
               /\ Set(p, Finish([req[p] EXCEPT !.ret = Some(new)], "ok"))
  /\ UNCHANGED <<daily, meals, workouts, waterEntries, ids, now, foodvars, socialvars>>

\* ------------------------------------------------- saveFastingSession
\* lines 831-857: what save stores for sessionData sd at time t.  Times and
\* the durations of sd are in ticks; the stored durations are whole hours.
Elapsed(sd, t) == t - Val(sd.startTime)

AutoEnds(sd, t) ==
  sd.endTime = Null /\ Truthy(sd.targetDuration)
    /\ Elapsed(sd, t) >= Val(sd.targetDuration)

SavedEndTime(sd, t) == IF AutoEnds(sd, t) THEN Some(t) ELSE sd.endTime

SavedDuration(sd, t) ==
  IF sd.endTime = Null /\ Truthy(sd.targetDuration)
  THEN IF Elapsed(sd, t) >= Val(sd.targetDuration)
       THEN Val(sd.targetDuration) ELSE Elapsed(sd, t)
  ELSE IF Truthy(sd.targetDuration) /\ sd.duration > Val(sd.targetDuration)
       THEN Val(sd.targetDuration) ELSE sd.duration

\* line 856: duration < 0.5 ? 1 : Math.round(duration)
DurationValue(dur) == IF 2 * dur < TicksPerHour THEN 1 ELSE Round(dur)

Saved(sd, t) ==
  [type |-> Val(sd.type), startTime |-> Val(sd.startTime),
   endTime |-> SavedEndTime(sd, t),
   duration |-> DurationValue(SavedDuration(sd, t)),
   targetDuration |-> TargetValue(sd.targetDuration)]

\* line 801: !sessionData || !sessionData.type || !sessionData.startTime
Invalid(sd) == sd = Null \/ Val(sd).type = Null \/ Val(sd).startTime = Null

\* a save that accepts whatever sessionData it is given
saveFastingSession_NoValidation(p, u, d, sd) ==
  /\ Free(p)
  /\ Set(p, [Begin(p, "saveFasting", "get", u, d) EXCEPT !.sess = sd])
  /\ UNCHANGED <<dbvars, now, foodvars, socialvars>>

\* lines 799-804: the validation, before the first store call
saveFastingSession(p, u, d, sd) ==
  /\ Free(p)
  /\ IF Invalid(sd)
     THEN Set(p, Finish(Begin(p, "saveFasting", "get", u, d), "ValidationError"))
     ELSE Set(p, [Begin(p, "saveFasting", "get", u, d) EXCEPT !.sess = sd])
  /\ UNCHANGED <<dbvars, now, foodvars, socialvars>>

\* lines 831-865: the values are computed, then the upsert reads
SessUpsertFind(p) ==
  /\ req[p].pc = "sessUpsertFind"
  /\ Set(p, [req[p] EXCEPT !.pc = "sessUpsertWrite",
               !.sess = Some(Saved(Val(req[p].sess), now)), !.at = now,
               !.id = IF SessionKeyTaken(req[p].dailyId) THEN 1 ELSE 0])
  /\ UNCHANGED <<dbvars, now, foodvars, socialvars>>

\* lines 866-892: and updates the row it read, or creates one
SessUpsertWrite(p) ==
  /\ req[p].pc = "sessUpsertWrite"
  /\ LET v == Val(req[p].sess)
         rows == SessionsOf(req[p].dailyId)
         Written(row) == [row EXCEPT !.type = v.type, !.startTime = v.startTime,
                                     !.endTime = v.endTime, !.duration = v.duration,
                                     !.targetDuration = v.targetDuration]
     IN IF req[p].id # 0
        THEN /\ IF rows = {}
                THEN /\ Set(p, Finish(req[p], "P2025"))
                     /\ UNCHANGED sessions
                ELSE /\ sessions' = (sessions \ rows) \cup {Written(row) : row \in rows}
                     /\ Set(p, Finish([req[p] EXCEPT !.ret = Some(v)], "ok"))
             /\ UNCHANGED ids
        ELSE IF ById(daily, req[p].dailyId) = {}
        THEN /\ Set(p, Finish(req[p], "P2003"))
             /\ UNCHANGED <<sessions, ids>>
        ELSE IF rows # {}
        THEN /\ Set(p, Finish(req[p], "P2002 dailyHealthDataId"))
             /\ UNCHANGED <<sessions, ids>>
        ELSE /\ sessions' = sessions \cup
                   {Written([id |-> ids.session + 1,
                             dailyHealthDataId |-> req[p].dailyId,
                             type |-> v.type, startTime |-> 0, endTime |-> Null,
                             duration |-> 0, targetDuration |-> Null])}
             /\ ids' = [ids EXCEPT !.session = @ + 1]
             /\ Set(p, Finish([req[p] EXCEPT !.ret = Some(v)], "ok"))
  /\ UNCHANGED <<daily, meals, workouts, waterEntries, now, foodvars, socialvars>>

\* ------------------------------------------------------------- reads
getDailyHealthData(p, u, d) ==
  /\ Free(p)
  /\ Set(p, Begin(p, "getDaily", "get", u, d))
  /\ UNCHANGED <<dbvars, now, foodvars, socialvars>>

\* lines 91-98: the days of the week that starts at startDate
WeekDates(startDate) == {d \in 1..MaxDates : startDate <= d /\ d < startDate + WeekLen}

\* findMany({userId, date: {in: dates}}, include: {..., fastingSession: true})
FindWeek(u, startDate) ==
  {Include(row) : row \in {r \in daily : r.user = u /\ r.date \in WeekDates(startDate)}}

\* lines 121-138: the sessions of the week to auto-complete at time t
ExpiredOf(data, t) ==
  {Val(d.fastingSession) :
     d \in {x \in data : x.fastingSession # Null /\ Expired(Val(x.fastingSession), t)}}

getWeeklyHealthData(p, u, startDate) ==
  /\ Free(p)
  /\ Set(p, Begin(p, "getWeekly", "weekFind", u, startDate))
  /\ UNCHANGED <<dbvars, now, foodvars, socialvars>>

\* lines 100-140: findMany, and the updates to make
WeekFind(p) ==
  /\ req[p].pc = "weekFind"
  /\ LET data == FindWeek(req[p].user, req[p].date) IN
       IF ExpiredOf(data, now) = {}
       THEN Set(p, Finish([req[p] EXCEPT !.ret = Some(data)], "ok"))
       ELSE Set(p, [req[p] EXCEPT !.pc = "weekUpdate", !.at = now,
                                  !.exp = Some(ExpiredOf(data, now))])
  /\ UNCHANGED <<dbvars, now, foodvars, socialvars>>

\* lines 128-141: Promise.all of the updates, one store call each, in any order
WeekUpdate(p) ==
  /\ req[p].pc = "weekUpdate"
  /\ \E s \in Val(req[p].exp) :
       IF ById(sessions, s.id) = {}
       THEN /\ Set(p, Finish(req[p], "P2025"))
            /\ UNCHANGED sessions
       ELSE /\ sessions' = Replace(sessions, Row(sessions, s.id),
                 [Row(sessions, s.id) EXCEPT !.endTime = Some(req[p].at),
                                             !.duration = Val(s.targetDuration)])
            /\ IF Val(req[p].exp) = {s}
               THEN Set(p, [req[p] EXCEPT !.pc = "weekRefetch", !.exp = Null, !.at = 0])
               ELSE Set(p, [req[p] EXCEPT !.exp = Some(Val(req[p].exp) \ {s})])
  /\ UNCHANGED <<daily, meals, workouts, waterEntries, ids, now, foodvars, socialvars>>

\* lines 144-161: the second findMany, returned as it is
WeekRefetch(p) ==
  /\ req[p].pc = "weekRefetch"
  /\ Set(p, Finish([req[p] EXCEPT !.ret = Some(FindWeek(req[p].user, req[p].date))], "ok"))
  /\ UNCHANGED <<dbvars, now, foodvars, socialvars>>

\* the passing of time
Tick ==
  /\ now < MaxTime
  /\ now' = now + 1
  /\ UNCHANGED <<dbvars, req, foodvars, socialvars>>

\* ---------------------------------------------------------------- basket
\* basket rows: [id, userId, foodItemId, quantity, servingSize]; food rows:
\* [id, name, source, calories, carbs, protein, fat, servingSize, category]
BasketOf(u) == {b \in basketItems : b.userId = u}

\* a basket table without the unique index
BasketKeyTaken_NoIndex(u, f) == FALSE

\* a unique index on (userId, foodItemId): findUnique({userId_foodItemId})
BasketKeyTaken(u, f) == \E b \in basketItems : b.userId = u /\ b.foodItemId = f

\* part_003 lines 186-187: quantity || 1, servingSize || 100
QuantityValue(q) == IF Truthy(q) THEN Val(q) ELSE 1
ServingValue(ss) == IF Truthy(ss) THEN Val(ss) ELSE 100

\* part_003 lines 171-195: f is foodItemId (Null when omitted), q and ss are
\* the optional quantity and servingSize of the body
addToBasket(p, u, f, q, ss) ==
  /\ Free(p)
  /\ IF f = Null
     THEN Set(p, Finish(Begin(p, "addToBasket", "basketFind", u, 0), "400 VALIDATION_ERROR"))
     ELSE Set(p, [Begin(p, "addToBasket", "basketFind", u, 0) EXCEPT
                    !.id = Val(f), !.val = Some(QuantityValue(q)),
                    !.val2 = Some(ServingValue(ss))])
  /\ UNCHANGED <<dbvars, now, foodvars, socialvars>>

\* food.service lines 194-201: findUnique by (userId, foodItemId)
BasketFind(p) ==
  /\ req[p].pc = "basketFind"
  /\ LET existing == {b \in BasketOf(req[p].user) : b.foodItemId = req[p].id} IN
       IF existing = {}
       THEN Set(p, [req[p] EXCEPT !.pc = "basketCreate"])
       ELSE \E b \in existing :
              Set(p, [req[p] EXCEPT !.pc = "basketUpdate", !.old = b.id])
  /\ UNCHANGED <<dbvars, now, foodvars, socialvars>>

\* food.service lines 203-209: update of the row found, by its id
BasketUpdateExisting(p) ==
  /\ req[p].pc = "basketUpdate"
  /\ IF ById(basketItems, req[p].old) = {}
     THEN /\ Set(p, Finish(req[p], "500"))
          /\ UNCHANGED basketItems
     ELSE LET new == [Row(basketItems, req[p].old) EXCEPT
                        !.quantity = Val(req[p].val),
                        !.servingSize = Val(req[p].val2)]
          IN /\ basketItems' = Replace(basketItems, Row(basketItems, req[p].old), new)
             /\ Set(p, Finish([req[p] EXCEPT !.ret = Some(new)], "ok"))
  /\ UNCHANGED <<dbvars, now, foodItems, fids, socialvars>>

\* food.service lines 211-221: create; the foreign key and the unique index
\* are the store's
BasketCreate(p) ==
  /\ req[p].pc = "basketCreate"
  /\ IF ById(foodItems, req[p].id) = {} \/ BasketKeyTaken(req[p].user, req[p].id)
     THEN /\ Set(p, Finish(req[p], "500"))
          /\ UNCHANGED <<basketItems, fids>>
     ELSE LET new == [id |-> fids.basket + 1, userId |-> req[p].user,
                      foodItemId |-> req[p].id, quantity |-> Val(req[p].val),
                      servingSize |-> Val(req[p].val2)]
          IN /\ basketItems' = basketItems \cup {new}
             /\ fids' = [fids EXCEPT !.basket = @ + 1]
             /\ Set(p, Finish([req[p] EXCEPT !.ret = Some(new)], "ok"))
  /\ UNCHANGED <<dbvars, now, foodItems, socialvars>>

\* part_003 lines 197-216: i is the basket item id, q the quantity (Null when
\* undefined), ss the servingSize (Null when undefined)
updateBasketItem(p, u, i, q, ss) ==
  /\ Free(p)
  /\ IF q = Null
     THEN Set(p, Finish(Begin(p, "updateBasketItem", "itemUpdate", u, 0), "400 VALIDATION_ERROR"))
     ELSE Set(p, [Begin(p, "updateBasketItem", "itemUpdate", u, 0) EXCEPT
                    !.id = i, !.val = q, !.val2 = ss])
  /\ UNCHANGED <<dbvars, now, foodvars, socialvars>>

\* food.service lines 224-237: update where {id}; part_003 lines 212-215: any
\* error is answered with 500
ItemUpdate(p) ==
  /\ req[p].pc = "itemUpdate"
  /\ IF ById(basketItems, req[p].id) = {}
     THEN /\ Set(p, Finish(req[p], "500"))
          /\ UNCHANGED basketItems
     ELSE LET old == Row(basketItems, req[p].id)
              new == [old EXCEPT
                        !.quantity = Val(req[p].val),
                        !.servingSize = IF req[p].val2 = Null THEN @ ELSE Val(req[p].val2)]
          IN /\ basketItems' = Replace(basketItems, old, new)
             /\ Set(p, Finish([req[p] EXCEPT !.ret = Some(new)], "ok"))
  /\ UNCHANGED <<dbvars, now, foodItems, fids, socialvars>>

\* part_003 lines 218-227
removeFromBasket(p, u, i) ==
  /\ Free(p)
  /\ Set(p, [Begin(p, "removeFromBasket", "itemFind", u, 0) EXCEPT !.id = i])
  /\ UNCHANGED <<dbvars, now, foodvars, socialvars>>

\* food.service lines 241-247 and part_003 lines 228-232: the ownership test
ItemFind(p) ==
  /\ req[p].pc = "itemFind"
  /\ IF \E b \in ById(basketItems, req[p].id) : b.userId = req[p].user
     THEN Set(p, [req[p] EXCEPT !.pc = "itemDelete"])
     ELSE Set(p, Finish(req[p], "404 NOT_FOUND"))
  /\ UNCHANGED <<dbvars, now, foodvars, socialvars>>

\* food.service lines 249-251: delete where {id}; whether the store's message
\* for a missing record holds 'not found' (part_003 lines 230-233) is the
\* store's choice
ItemDelete(p) ==
  /\ req[p].pc = "itemDelete"
  /\ IF ById(basketItems, req[p].id) = {}
     THEN /\ \E res \in {"404 NOT_FOUND", "500"} : Set(p, Finish(req[p], res))
          /\ UNCHANGED basketItems
     ELSE /\ basketItems' = basketItems \ ById(basketItems, req[p].id)
          /\ Set(p, Finish(req[p], "ok"))
  /\ UNCHANGED <<dbvars, now, foodItems, fids, socialvars>>

\* ------------------------------------------------------ catalog search
\* strings that are compared letter by letter are tuples of characters
UpperCase == <<"A", "D", "L", "O", "S">>
LowerCase == <<"a", "d", "l", "o", "s">>
ToLower(c) ==
  IF \E i \in DOMAIN UpperCase : UpperCase[i] = c
  THEN LowerCase[CHOOSE i \in DOMAIN UpperCase : UpperCase[i] = c]
  ELSE c
LowerName(s) == [i \in DOMAIN s |-> ToLower(s[i])]

\* name: {contains: q, mode: 'insensitive'}
Contains(s, q) ==
  \E i \in 0..(Len(s) - Len(q)) :
    SubSeq(LowerName(s), i + 1, i + Len(q)) = LowerName(q)

\* a string that is not empty (JavaScript truthiness of a string)
Given(o) == o # Null /\ Val(o) # <<>>

\* food.service lines 48-59: the where clause of a search
SearchWhere(params, row) ==
  /\ Given(params.search) => Contains(row.name, Val(params.search))
  /\ params.category # Null /\ Val(params.category) # "" =>
       row.category = params.category

\* orderBy: {name: 'asc'}: letter by letter, case folded; rows whose names
\* fold to the same letters come in either order
Alphabet == <<" ", "a", "d", "i", "l", "o", "r", "s", "t", "x">>
CharRank(c) == CHOOSE i \in DOMAIN Alphabet : Alphabet[i] = c
RECURSIVE NameBefore(_, _)
NameBefore(a, b) ==
  IF b = <<>> THEN FALSE
  ELSE IF a = <<>> THEN TRUE
  ELSE IF Head(a) = Head(b) THEN NameBefore(Tail(a), Tail(b))
  ELSE CharRank(Head(a)) < CharRank(Head(b))
RowBefore(x, y) == NameBefore(LowerName(x.name), LowerName(y.name))
RECURSIVE OrderedByName(_)
OrderedByName(S) ==
  IF S = {} THEN {<<>>}
  ELSE UNION {{<<m>> \o t : t \in OrderedByName(S \ {m})} :
                m \in {x \in S : \A y \in S : ~RowBefore(y, x)}}

\* skip and take of findMany
Take(s, skip, n) ==
  SubSeq(s, skip + 1, IF skip + n < Len(s) THEN skip + n ELSE Len(s))

\* food.service lines 44-46: page || 1 and Math.min(limit || 20, 100)
PageValue(params) == IF Truthy(params.page) THEN Val(params.page) ELSE 1
LimitValue(params) ==
  IF Truthy(params.limit)
  THEN (IF Val(params.limit) < 100 THEN Val(params.limit) ELSE 100)
  ELSE 20

\* food.service lines 61-77: what FoodService.searchFoodItems returns when
\* findMany answers the matching rows in the order ordered
SearchResult(params, ordered) ==
  [items |-> Take(ordered, (PageValue(params) - 1) * LimitValue(params),
                  LimitValue(params)),
   total |-> Len(ordered),
   page |-> PageValue(params),
   limit |-> LimitValue(params),
   totalPages |-> (Len(ordered) + LimitValue(params) - 1) \div LimitValue(params)]

\* the answers FoodService.searchFoodItems can give in the current state
SearchAnswers(params) ==
  {SearchResult(params, o) :
     o \in OrderedByName({f \in foodItems : SearchWhere(params, f)})}

\* part_003 line 27: search && typeof search === 'string' &&
\* search.trim().length > 0
HasText(search) ==
  search # Null /\ \E i \in DOMAIN Val(search) : Val(search)[i] # " "

\* part_003 lines 10-24: a request without a user is answered 401
searchFoodItems(p, u, params) ==
  /\ Free(p)
  /\ IF u = 0
     THEN Set(p, Finish(Begin(p, "searchFoodItems", "search", u, 0), "401 AUTH_REQUIRED"))
     ELSE Set(p, [Begin(p, "searchFoodItems", "search", u, 0) EXCEPT !.query = params])
  /\ UNCHANGED <<dbvars, now, foodvars, socialvars>>

\* an inner catch that passes the error on
SearchCatch_Rethrow(p, e) == Set(p, Finish(req[p], "500"))

\* part_003 lines 47-53: the inner catch logs the error e, and the result
\* found so far is sent as a success
SearchCatch(p, e) == Set(p, [Finish(req[p], "ok") EXCEPT !.err = Some(e)])

\* part_003 lines 18-28 and 53-57: the search in the database; the store
\* failing is answered 500 by the outer catch
SearchLocal(p) ==
  /\ req[p].pc = "search"
  /\ \/ Set(p, Finish(req[p], "500"))
     \/ \E result \in SearchAnswers(req[p].query) :
          IF result.items = <<>> /\ HasText(req[p].query.search)
          THEN Set(p, [req[p] EXCEPT !.pc = "scrape", !.ret = Some(result)])
          ELSE Set(p, Finish([req[p] EXCEPT !.ret = Some(result)], "ok"))
  /\ UNCHANGED <<dbvars, now, foodvars, socialvars>>

\* what the scraper can find on the web: healthy Indian items with distinct
\* names, per 100 g, each with a category (foodScraper.service lines 198-211)
ScrapedSource == "open-food-facts-indian-healthy"
WebItems ==
  <<[name |-> <<"d", "o", "s", "a">>, source |-> Some(ScrapedSource), calories |-> 80,
     carbs |-> 15, protein |-> 2, fat |-> 1, servingSize |-> Some(100),
     category |-> Some("snacks")],
    [name |-> <<"D", "a", "l">>, source |-> Some(ScrapedSource), calories |-> 110,
     carbs |-> 8, protein |-> 4, fat |-> 1, servingSize |-> Some(100),
     category |-> Some("pulses")]>>
WebAnswers ==
  {<<>>, <<WebItems[1]>>, <<WebItems[2]>>, WebItems}

\* the progress of every item of a batch: its findFirst is still to come
ImportStart(items) == [k \in DOMAIN items |-> [pc |-> "find", existing |-> Null]]

\* part_003 lines 30-35 and foodScraper.service lines 242-277: the call of
\* the scraper is rejected, or answers at most limit items; none ends the
\* request with the empty result
Scrape(p) ==
  /\ req[p].pc = "scrape"
  /\ \/ SearchCatch(p, "scrape")
     \/ \E web \in WebAnswers :
          LET scrapedItems ==
                Take(web, 0, IF Truthy(req[p].query.limit)
                             THEN Val(req[p].query.limit) ELSE 20)
          IN IF Len(scrapedItems) > 0
             THEN Set(p, [req[p] EXCEPT !.pc = "import", !.items = scrapedItems,
                                        !.prog = ImportStart(scrapedItems)])
             ELSE Set(p, Finish(req[p], "ok"))
  /\ UNCHANGED <<dbvars, now, foodvars, socialvars>>

\* ----------------------------------------------------- bulkImportFoodItems
\* source || 'scraped' and servingSize || 100 (food.service lines 133, 166
\* and 169)
SourceValue(item) == IF item.source = Null \/ Val(item.source) = "" THEN "scraped" ELSE Val(item.source)
ImportServing(item) == IF Truthy(item.servingSize) THEN Val(item.servingSize) ELSE 100

\* food.service lines 173-178: the counts of the settled items
ImportCounts(prog) ==
  [successful |-> Cardinality({k \in DOMAIN prog : prog[k].pc = "fulfilled"}),
   failed |-> Cardinality({k \in DOMAIN prog : prog[k].pc = "rejected"}),
   total |-> Len(prog)]

\* Promise.allSettled: when the last item has settled the call returns, to
\* its caller (food.service lines 173-178), to scrapeFood, which sends the
\* counts as a success (part_003 lines 145-149), or into the search
\* (part_003 lines 36-40)
ImportSettled(r) ==
  IF \A k \in DOMAIN r.prog : r.prog[k].pc \in {"fulfilled", "rejected"}
  THEN IF r.op \in {"bulkImportFoodItems", "scrapeFood"}
       THEN [Finish([r EXCEPT !.ret = Some(ImportCounts(r.prog))], "ok") EXCEPT
               !.err = r.err]
       ELSE [r EXCEPT !.pc = "reSearch", !.items = <<>>, !.prog = <<>>]
  ELSE r

\* food.service lines 111-127: the items of one call are worked on
\* concurrently; an empty list returns at once
bulkImportFoodItems(p, items) ==
  /\ Free(p)
  /\ Set(p, ImportSettled([Begin(p, "bulkImportFoodItems", "import", 0, 0) EXCEPT
                             !.items = items, !.prog = ImportStart(items)]))
  /\ UNCHANGED <<dbvars, now, foodvars, socialvars>>

\* an import that looks nothing up and creates every item
ImportFind_NoLookup(p, k) ==
  /\ req[p].pc = "import"
  /\ k \in DOMAIN req[p].prog
  /\ req[p].prog[k].pc = "find"
  /\ Set(p, [req[p] EXCEPT !.prog[k] = [pc |-> "write", existing |-> Null]])
  /\ UNCHANGED <<dbvars, now, foodvars, socialvars>>

\* food.service lines 129-134: findFirst by name and source, of item k
ImportFind(p, k) ==
  /\ req[p].pc = "import"
  /\ k \in DOMAIN req[p].prog
  /\ req[p].prog[k].pc = "find"
  /\ LET item == req[p].items[k]
         matching == {f \in foodItems :
                        f.name = item.name /\ f.source = SourceValue(item)}
     IN IF matching = {}
        THEN Set(p, [req[p] EXCEPT !.prog[k] = [pc |-> "write", existing |-> Null]])
        ELSE \E e \in matching :
               Set(p, [req[p] EXCEPT !.prog[k] = [pc |-> "write", existing |-> Some(e)]])
  /\ UNCHANGED <<dbvars, now, foodvars, socialvars>>

\* food.service lines 136-171: update of the row found (the nutrition values,
\* and item.category || existing.category), or create; no unique index
\* forbids a second row of the same name and source
ImportWrite(p, k) ==
  /\ req[p].pc = "import"
  /\ k \in DOMAIN req[p].prog
  /\ req[p].prog[k].pc = "write"
  /\ LET item == req[p].items[k]
         existing == req[p].prog[k].existing
         settle(how) ==
           Set(p, ImportSettled([req[p] EXCEPT !.prog[k] = [pc |-> how, existing |-> Null]]))
     IN IF existing # Null
        THEN IF ById(foodItems, Val(existing).id) = {}
             THEN /\ settle("rejected")
                  /\ UNCHANGED <<foodItems, fids>>
             ELSE LET old == Row(foodItems, Val(existing).id)
                      new == [old EXCEPT
                                !.calories = item.calories,
                                !.carbs = item.carbs,
                                !.protein = item.protein,
                                !.fat = item.fat,
                                !.category =
                                  IF item.category # Null /\ Val(item.category) # ""
                                  THEN item.category
                                  ELSE Val(existing).category]
                  IN /\ foodItems' = Replace(foodItems, old, new)
                     /\ settle("fulfilled")
                     /\ UNCHANGED fids
        ELSE /\ foodItems' = foodItems \cup
                  {[id |-> fids.food + 1, name |-> item.name,
                    source |-> SourceValue(item), calories |-> item.calories,
                    carbs |-> item.carbs, protein |-> item.protein,
                    fat |-> item.fat, servingSize |-> ImportServing(item),
                    category |-> item.category]}
             /\ fids' = [fids EXCEPT !.food = @ + 1]
             /\ settle("fulfilled")
  /\ UNCHANGED <<dbvars, now, basketItems, socialvars>>

\* part_003 lines 39-53: the search again after the import; a failure of it
\* is caught like one of the scraper
ReSearch(p) ==
  /\ req[p].pc = "reSearch"
  /\ \/ SearchCatch(p, "search")
     \/ \E result \in SearchAnswers(req[p].query) :
          Set(p, Finish([req[p] EXCEPT !.ret = Some(result)], "ok"))
  /\ UNCHANGED <<dbvars, now, foodvars, socialvars>>

\* ------------------------------------------------------------ scrapeFood
\* foodScraper.service lines 155-222 and 242-277: the request to the food
\* source fails (network error, timeout) and scrapeOpenFoodFacts catches it
\* and returns [], or the source answers; at most limit items are returned
ScrapeFoodItems(failed, web, limit) ==
  IF failed THEN <<>> ELSE Take(web, 0, limit)

\* part_003 lines 128-140
scrapeFood(p, u, query, limit) ==
  /\ Free(p)
  /\ IF u = 0
     THEN Set(p, Finish(Begin(p, "scrapeFood", "forceScrape", u, 0), "401 AUTH_REQUIRED"))
     ELSE IF ~Given(query)
     THEN Set(p, Finish(Begin(p, "scrapeFood", "forceScrape", u, 0), "400 VALIDATION_ERROR"))
     ELSE Set(p, [Begin(p, "scrapeFood", "forceScrape", u, 0) EXCEPT
                    !.query = [search |-> query, category |-> Null, page |-> Null,
                               limit |-> limit]])
  /\ UNCHANGED <<dbvars, now, foodvars, socialvars>>

\* part_003 lines 142-145: the scraper's answer goes into bulkImportFoodItems
\* (limit || 20); the scraper logs a failure of the source and what it
\* returns does not tell it from an empty answer
ForceScrape(p) ==
  /\ req[p].pc = "forceScrape"
  /\ \E failed \in BOOLEAN, web \in WebAnswers :
       LET scrapedItems ==
             ScrapeFoodItems(failed, web,
                             IF Truthy(req[p].query.limit)
                             THEN Val(req[p].query.limit) ELSE 20)
       IN Set(p, ImportSettled([req[p] EXCEPT
                    !.pc = "import", !.items = scrapedItems,
                    !.prog = ImportStart(scrapedItems),
                    !.err = IF failed THEN Some("network") ELSE Null]))
  /\ UNCHANGED <<dbvars, now, foodvars, socialvars>>

\* ---------------------------------------------------------- getCategories
\* Array.prototype.sort of the category names: code-unit order
CategoryNames == <<"breads", "lentils", "pulses", "snacks">>
CategoryRank(c) == CHOOSE i \in DOMAIN CategoryNames : CategoryNames[i] = c
RECURSIVE SortCategories(_)
SortCategories(S) ==
  IF S = {} THEN <<>>
  ELSE LET m == CHOOSE x \in S : \A y \in S : CategoryRank(x) <= CategoryRank(y)
       IN <<m>> \o SortCategories(S \ {m})

\* food.service lines 94-109: the distinct categories that are not null
getCategories(p) ==
  /\ Free(p)
  /\ Set(p, Finish([Begin(p, "getCategories", "categories", 0, 0) EXCEPT
                      !.ret = Some(SortCategories(
                                {Val(f.category) : f \in {g \in foodItems : g.category # Null}}))],
                   "ok"))
  /\ UNCHANGED <<dbvars, now, foodvars, socialvars>>

\* ------------------------------------------------- createMealFromBasket
\* food.service lines 182-190: the basket of u, each item with its food item
GetBasketRows(u) ==
  {[item |-> b, foodItem |-> Row(foodItems, b.foodItemId)] : b \in BasketOf(u)}

\* part_003 lines 262-269, exactly: the sum over the basket of
\* foodItem[f] * (quantity * servingSize) / foodItem.servingSize, as the
\* fraction <<numerator, denominator>>
RECURSIVE SumScaled(_, _)
SumScaled(rows, f) ==
  IF rows = {} THEN <<0, 1>>
  ELSE LET x == CHOOSE y \in rows : TRUE
           rest == SumScaled(rows \ {x}, f)
           n == x.foodItem[f] * x.item.quantity * x.item.servingSize
           d == x.foodItem.servingSize
       IN <<n * rest[2] + rest[1] * d, d * rest[2]>>

\* Math.round of a non-negative fraction (line 285)
RoundFraction(q) == (2 * q[1] + q[2]) \div (2 * q[2])

\* Math.round(x * 10) / 10 of a non-negative fraction, in tenths (lines 286-288)
RoundTenths(q) == (20 * q[1] + q[2]) \div (2 * q[2])

\* a meal whose calories are cut off, not rounded
MealOf_Truncated(rows, mealType) ==
  [type |-> mealType,
   calories |-> SumScaled(rows, "calories")[1] \div SumScaled(rows, "calories")[2],
   carbs |-> RoundTenths(SumScaled(rows, "carbs")),
   protein |-> RoundTenths(SumScaled(rows, "protein")),
   fat |-> RoundTenths(SumScaled(rows, "fat")),
   items |-> Cardinality(rows)]

\* part_003 lines 282-294: the meal returned; carbs, protein and fat in tenths
MealOf(rows, mealType) ==
  [type |-> mealType,
   calories |-> RoundFraction(SumScaled(rows, "calories")),
   carbs |-> RoundTenths(SumScaled(rows, "carbs")),
   protein |-> RoundTenths(SumScaled(rows, "protein")),
   fat |-> RoundTenths(SumScaled(rows, "fat")),
   items |-> Cardinality(rows)]

\* part_003 lines 237-247: mealType is Null when the body has none
createMealFromBasket(p, u, mealType) ==
  /\ Free(p)
  /\ IF mealType = Null
     THEN Set(p, Finish(Begin(p, "createMealFromBasket", "mealBasket", u, 0),
                        "400 VALIDATION_ERROR"))
     ELSE Set(p, [Begin(p, "createMealFromBasket", "mealBasket", u, 0) EXCEPT
                    !.val = mealType])
  /\ UNCHANGED <<dbvars, now, foodvars, socialvars>>

\* part_003 lines 249-276: getBasket, the test for an empty basket, the totals
MealBasket(p) ==
  /\ req[p].pc = "mealBasket"
  /\ LET rows == GetBasketRows(req[p].user) IN
       IF rows = {}
       THEN Set(p, Finish(req[p], "400 VALIDATION_ERROR"))
       ELSE Set(p, [req[p] EXCEPT !.pc = "mealClear",
                      !.ret = Some(MealOf(rows, Val(req[p].val)))])
  /\ UNCHANGED <<dbvars, now, foodvars, socialvars>>

\* a clear that deletes every basket item
MealClear_DeleteAll(p) ==
  /\ req[p].pc = "mealClear"
  /\ basketItems' = {}
  /\ Set(p, Finish(req[p], "ok"))
  /\ UNCHANGED <<dbvars, now, foodItems, fids, socialvars>>

\* part_003 lines 279-294 and food.service lines 254-258: deleteMany of the
\* caller's basket items, then the meal is returned
MealClear(p) ==
  /\ req[p].pc = "mealClear"
  /\ basketItems' = basketItems \ BasketOf(req[p].user)
  /\ Set(p, Finish(req[p], "ok"))
  /\ UNCHANGED <<dbvars, now, foodItems, fids, socialvars>>

\* -------------------------------------------------------- specifications
TheUser == 1
Users == 1..MaxUsers
TheDate == 1

MealIds == 1..MaxMeals
WorkoutIds == 1..MaxWorkouts
OptCalories == {Null} \cup {Some(c) : c \in Calories}

\* the steps of the handlers, by handler
GetStep(p) ==
  \/ GetFind(p)
  \/ CreateDaily(p)

AddMealStep(p) ==
  \/ \E c \in Calories : addMeal(p, TheUser, TheDate, c)
  \/ CreateMeal(p)
  \/ IncrementConsumed(p)

EditMealStep(p) ==
  \/ \E i \in MealIds, c \in OptCalories : updateMeal(p, TheUser, i, c)
  \/ UpdateMealFind(p)
  \/ UpdateMealWrite(p)
  \/ UpdateMealFindDaily(p)
  \/ UpdateMealTotal(p)
  \/ \E i \in MealIds : deleteMeal(p, TheUser, i)
  \/ DeleteMealFind(p)
  \/ DeleteMealDelete(p)
  \/ DeleteMealFindDaily(p)
  \/ DeleteMealTotal(p)

AddWaterStep(p) ==
  \/ \E g \in Glasses : addWaterEntry(p, TheUser, TheDate, g)
  \/ CreateWaterEntry(p)
  \/ IncrementWater(p)

AddWorkoutStep(p) ==
  \/ \E c \in Calories : addWorkout(p, TheUser, TheDate, c)
  \/ CreateWorkout(p)
  \/ IncrementBurned(p)

EditWorkoutStep(p) ==
  \/ \E i \in WorkoutIds, c \in OptCalories : updateWorkout(p, TheUser, i, c)
  \/ UpdateWorkoutFind(p)
  \/ UpdateWorkoutWrite(p)
  \/ UpdateWorkoutFindDaily(p)
  \/ UpdateWorkoutTotal(p)
  \/ \E i \in WorkoutIds : deleteWorkout(p, TheUser, i)
  \/ DeleteWorkoutFind(p)
  \/ DeleteWorkoutDelete(p)
  \/ DeleteWorkoutFindDaily(p)
  \/ DeleteWorkoutTotal(p)

SaveDailyStep(p) ==
  \/ \E cc \in Calories, cb \in Calories, wi \in Glasses :
       saveDailyHealthData(p, TheUser, TheDate, cc, cb, wi)
  \/ SaveUpsertFind(p)
  \/ SaveUpsertWrite(p)

\* one request at a time: the meal and workout mutators on one aggregate
NextChild ==
  \E p \in SeqProcs :
    \/ GetStep(p)
    \/ AddMealStep(p)
    \/ EditMealStep(p)
    \/ AddWorkoutStep(p)
    \/ EditWorkoutStep(p)

SpecChild == Init /\ [][NextChild]_vars

\* one request at a time: saveDailyHealthData mixed with the three adders
NextSave ==
  \E p \in SeqProcs :
    \/ GetStep(p)
    \/ AddMealStep(p)
    \/ AddWaterStep(p)
    \/ AddWorkoutStep(p)
    \/ SaveDailyStep(p)

SpecSave == Init /\ [][NextSave]_vars

\* one request at a time: every child mutator and saveDailyHealthData
NextSeq ==
  \E p \in SeqProcs :
    \/ GetStep(p)
    \/ AddMealStep(p)
    \/ EditMealStep(p)
    \/ AddWaterStep(p)
    \/ AddWorkoutStep(p)
    \/ EditWorkoutStep(p)
    \/ SaveDailyStep(p)

SpecSeq == Init /\ [][NextSeq]_vars

\* concurrent requests: the meal mutators with calories present and positive
NextRace ==
  \E p \in Procs :
    \/ GetFind(p)
    \/ CreateDaily(p)
    \/ \E c \in PosCalories : addMeal(p, TheUser, TheDate, c)
    \/ CreateMeal(p)
    \/ IncrementConsumed(p)
    \/ \E i \in MealIds, c \in PosCalories : updateMeal(p, TheUser, i, Some(c))
    \/ UpdateMealFind(p)
    \/ UpdateMealWrite(p)
    \/ UpdateMealFindDaily(p)
    \/ UpdateMealTotal(p)
    \/ \E i \in MealIds : deleteMeal(p, TheUser, i)
    \/ DeleteMealFind(p)
    \/ DeleteMealDelete(p)
    \/ DeleteMealFindDaily(p)
    \/ DeleteMealTotal(p)

SpecRace == Init /\ [][NextRace]_vars

\* concurrent requests: saveDailyHealthData on one key
NextUpsert ==
  \E p \in Procs :
    \/ \E c \in Calories : saveDailyHealthData(p, TheUser, TheDate, c, MaxCal - c, 0)
    \/ SaveUpsertFind(p)
    \/ SaveUpsertWrite(p)
    \/ SaveCatchFind(p)
    \/ SaveCatchUpdate(p)

SpecUpsert == Init /\ [][NextUpsert]_vars


Quiet == \A p \in Procs : Free(p)

TotalsMatch(row) ==
  /\ row.caloriesConsumed = SumOf(MealsOf(row.id), "calories")
  /\ row.caloriesBurned = SumOf(WorkoutsOf(row.id), "totalCaloriesBurned")
  /\ row.waterIntake = SumOf(WaterOf(row.id), "glasses")

\* inputs of the fasting handlers: a target under half an hour (it rounds to
\* 0 hours), a target of one hour, or none
FastingTypes == {"16:8", "18:6"}
Targets == {Null, Some(1), Some(TicksPerHour)}

\* sessionData of a save at time t: started at 0 or now, ended now or not,
\* with a duration field (in ticks) of 0 (or omitted) or of two hours
SessionData(t) ==
  {Some([type |-> Some(ty), startTime |-> Some(st), endTime |-> en,
         duration |-> du, targetDuration |-> tg]) :
     ty \in {"18:6"}, st \in {0, t}, en \in {Null, Some(t)},
     du \in {0, 2 * TicksPerHour}, tg \in Targets}

\* sessionData that is absent, or lacks its type or its startTime
InvalidSessionData ==
  {Null,
   Some([type |-> Null, startTime |-> Some(0), endTime |-> Null,
         duration |-> 0, targetDuration |-> Null]),
   Some([type |-> Some("18:6"), startTime |-> Null, endTime |-> Null,
         duration |-> 0, targetDuration |-> Null])}

ReadStep(p) ==
  \/ getDailyHealthData(p, TheUser, TheDate)
  \/ getWeeklyHealthData(p, TheUser, TheDate)
  \/ WeekFind(p)
  \/ WeekUpdate(p)
  \/ WeekRefetch(p)

GetFastingStep(p) ==
  \/ GetFind(p)
  \/ GetAutoComplete(p)
  \/ GetRefetch(p)
  \/ CreateDaily(p)

\* one request at a time, and the clock: the fasting handlers and the reads
NextFast ==
  \/ Tick
  \/ \E p \in SeqProcs :
       \/ GetFastingStep(p)
       \/ ReadStep(p)
       \/ \E ty \in FastingTypes, tg \in Targets :
            startFastingSession(p, TheUser, TheDate, ty, tg)
       \/ CreateSession(p)
       \/ endFastingSession(p, TheUser, TheDate)
       \/ EndUpdate(p)
       \/ \E sd \in SessionData(now) : saveFastingSession(p, TheUser, TheDate, sd)
       \/ \E sd \in InvalidSessionData : saveFastingSession(p, TheUser, TheDate, sd)
       \/ SessUpsertFind(p)
       \/ SessUpsertWrite(p)

SpecFast == Init /\ [][NextFast]_vars

\* concurrent requests, and the clock: start, end, save and read on one key
RaceSessionData(t) ==
  {Some([type |-> Some("18:6"), startTime |-> Some(t), endTime |-> en,
         duration |-> 0, targetDuration |-> Null]) : en \in {Null, Some(t)}}

NextFastRace ==
  \/ Tick
  \/ \E p \in Procs :
       \/ GetFastingStep(p)
       \/ getDailyHealthData(p, TheUser, TheDate)
       \/ startFastingSession(p, TheUser, TheDate, "16:8", Some(TicksPerHour))
       \/ CreateSession(p)
       \/ endFastingSession(p, TheUser, TheDate)
       \/ EndUpdate(p)
       \/ \E sd \in RaceSessionData(now) : saveFastingSession(p, TheUser, TheDate, sd)
       \/ SessUpsertFind(p)
       \/ SessUpsertWrite(p)

SpecFastRace == Init /\ [][NextFastRace]_vars

\* concurrent requests: the five mutators that create the aggregate of a key
NextCreate ==
  \E p \in Procs :
    \/ GetFind(p)
    \/ CreateDaily(p)
    \/ addMeal(p, TheUser, TheDate, MaxCal)
    \/ CreateMeal(p)
    \/ IncrementConsumed(p)
    \/ addWaterEntry(p, TheUser, TheDate, MaxGlasses)
    \/ CreateWaterEntry(p)
    \/ IncrementWater(p)
    \/ addWorkout(p, TheUser, TheDate, MaxCal)
    \/ CreateWorkout(p)
    \/ IncrementBurned(p)
    \/ startFastingSession(p, TheUser, TheDate, "16:8", Null)
    \/ CreateSession(p)
    \/ \E sd \in RaceSessionData(now) : saveFastingSession(p, TheUser, TheDate, sd)
    \/ SessUpsertFind(p)
    \/ SessUpsertWrite(p)

SpecCreate == Init /\ [][NextCreate]_vars

\* one request at a time, of any user: the meal and workout mutators
NextOwner ==
  \E p \in SeqProcs :
    \/ GetFind(p)
    \/ CreateDaily(p)
    \/ \E u \in Users : addMeal(p, u, TheDate, MaxCal)
    \/ CreateMeal(p)
    \/ IncrementConsumed(p)
    \/ \E u \in Users, i \in MealIds : updateMeal(p, u, i, Some(1))
    \/ UpdateMealFind(p)
    \/ UpdateMealWrite(p)
    \/ UpdateMealFindDaily(p)
    \/ UpdateMealTotal(p)
    \/ \E u \in Users, i \in MealIds : deleteMeal(p, u, i)
    \/ DeleteMealFind(p)
    \/ DeleteMealDelete(p)
    \/ DeleteMealFindDaily(p)
    \/ DeleteMealTotal(p)
    \/ \E u \in Users : addWorkout(p, u, TheDate, MaxCal)
    \/ CreateWorkout(p)
    \/ IncrementBurned(p)
    \/ \E u \in Users, i \in WorkoutIds : updateWorkout(p, u, i, Some(1))
    \/ UpdateWorkoutFind(p)
    \/ UpdateWorkoutWrite(p)
    \/ UpdateWorkoutFindDaily(p)
    \/ UpdateWorkoutTotal(p)
    \/ \E u \in Users, i \in WorkoutIds : deleteWorkout(p, u, i)
    \/ DeleteWorkoutFind(p)
    \/ DeleteWorkoutDelete(p)
    \/ DeleteWorkoutFindDaily(p)
    \/ DeleteWorkoutTotal(p)

SpecOwner == Init /\ [][NextOwner]_vars

\* ------------------------------------------------------------------ feed
\* feed.service lines 18-25
FriendUids(u) == {f.friendUid : f \in {g \in friends : g.userId = u}}

\* a filter that lets every post through
Accessible_Everything(post, allowed) == TRUE

\* feed.service lines 29-38: the where clause of getAccessiblePost
Accessible(post, allowed) ==
  \/ post.visibility = "public"
  \/ post.visibility = "friends" /\ post.userId \in allowed

\* the unique index on (postId, userId): findUnique({postId_userId})
LikeKeyTaken(i, u) == \E l \in likes : l.postId = i /\ l.userId = u

\* feed controller lines 305-333 and feed.service lines 42-68: a post starts
\* without likes and comments
createPost(p, u, content, visibility) ==
  /\ Free(p)
  /\ IF content = Null
     THEN /\ Set(p, Finish(Begin(p, "createPost", "post", u, 0), "400 VALIDATION_ERROR"))
          /\ UNCHANGED <<posts, sids>>
     ELSE LET post == [id |-> sids.post + 1, userId |-> u,
                       visibility |-> IF visibility = Some("friends")
                                      THEN "friends" ELSE "public",
                       likesCount |-> 0, commentsCount |-> 0]
          IN /\ posts' = posts \cup {post}
             /\ sids' = [sids EXCEPT !.post = @ + 1]
             /\ Set(p, Finish([Begin(p, "createPost", "post", u, 0) EXCEPT
                                 !.ret = Some(post)], "ok"))
  /\ UNCHANGED <<dbvars, now, foodvars, likes, comments, friends, challengevars>>

\* feed controller lines 335-342
toggleLike(p, u, i) ==
  /\ Free(p)
  /\ Set(p, [Begin(p, "toggleLike", "friendUids", u, 0) EXCEPT !.id = i])
  /\ UNCHANGED <<dbvars, now, foodvars, socialvars>>

\* feed controller lines 354-366: a comment without text is answered 400
addComment(p, u, i, text) ==
  /\ Free(p)
  /\ IF text = Null
     THEN Set(p, Finish(Begin(p, "addComment", "friendUids", u, 0), "400 VALIDATION_ERROR"))
     ELSE Set(p, [Begin(p, "addComment", "friendUids", u, 0) EXCEPT !.id = i])
  /\ UNCHANGED <<dbvars, now, foodvars, socialvars>>

\* feed controller lines 377-387: limit is Math.min(parseInt(limit) || 10, 50)
listComments(p, u, i, limit) ==
  /\ Free(p)
  /\ Set(p, [Begin(p, "listComments", "friendUids", u, 0) EXCEPT
               !.id = i,
               !.val = IF Truthy(limit)
                       THEN (IF Val(limit) < 50 THEN limit ELSE Some(50))
                       ELSE Some(10)])
  /\ UNCHANGED <<dbvars, now, foodvars, socialvars>>

\* feed.service lines 28-29: the caller and the caller's friends
GetFriendUids(p) ==
  /\ req[p].pc = "friendUids"
  /\ Set(p, [req[p] EXCEPT !.pc = "postFind",
                           !.allowed = {req[p].user} \cup FriendUids(req[p].user)])
  /\ UNCHANGED <<dbvars, now, foodvars, socialvars>>

\* feed.service lines 31-39 and 108-110, 149-151, 184-186; the feed
\* controllers answer 'Post not found' with 404
GetAccessiblePost(p) ==
  /\ req[p].pc = "postFind"
  /\ IF \E post \in ById(posts, req[p].id) : Accessible(post, req[p].allowed)
     THEN Set(p, [req[p] EXCEPT !.pc = CASE req[p].op = "toggleLike" -> "likeFind"
                                          [] req[p].op = "addComment" -> "commentCreate"
                                          [] OTHER -> "commentsFind"])
     ELSE Set(p, Finish(req[p], "404 NOT_FOUND"))
  /\ UNCHANGED <<dbvars, now, foodvars, socialvars>>

\* feed.service lines 112-119
LikeFind(p) ==
  /\ req[p].pc = "likeFind"
  /\ Set(p, [req[p] EXCEPT !.pc = "likeWrite",
                           !.existing = IF LikeKeyTaken(req[p].id, req[p].user)
                                        THEN Some(TRUE) ELSE Null])
  /\ UNCHANGED <<dbvars, now, foodvars, socialvars>>

\* a failed transaction that keeps the change of the counter
TransactionFailed_CountKept(i, delta) ==
  posts' = {IF q.id = i THEN [q EXCEPT !.likesCount = @ + delta] ELSE q : q \in posts}

\* feed.service lines 122-130 and 134-142: a statement of the $transaction
\* fails, and the transaction leaves the post as it was
TransactionFailed(i, delta) == UNCHANGED posts

\* feed.service lines 121-144: in one transaction the like row is deleted and
\* the counter decremented, or the row created and the counter incremented;
\* deleting a row that is gone or creating one that is there fails
LikeWrite(p) ==
  /\ req[p].pc = "likeWrite"
  /\ LET i == req[p].id
         u == req[p].user
         counted(delta) ==
           posts' = {IF q.id = i THEN [q EXCEPT !.likesCount = @ + delta] ELSE q : q \in posts}
     IN IF req[p].existing # Null
        THEN IF LikeKeyTaken(i, u)
             THEN /\ likes' = likes \ {[postId |-> i, userId |-> u]}
                  /\ counted(-1)
                  /\ Set(p, Finish([req[p] EXCEPT !.ret = Some(FALSE)], "ok"))
             ELSE /\ TransactionFailed(i, -1)
                  /\ UNCHANGED likes
                  /\ Set(p, Finish(req[p], "500"))
        ELSE IF LikeKeyTaken(i, u)
             THEN /\ TransactionFailed(i, 1)
                  /\ UNCHANGED likes
                  /\ Set(p, Finish(req[p], "500"))
             ELSE /\ likes' = likes \cup {[postId |-> i, userId |-> u]}
                  /\ counted(1)
                  /\ Set(p, Finish([req[p] EXCEPT !.ret = Some(TRUE)], "ok"))
  /\ UNCHANGED <<dbvars, now, foodvars, comments, friends, sids, challengevars>>

\* feed.service lines 153-179: in one transaction the comment is created and
\* commentsCount incremented
CommentCreate(p) ==
  /\ req[p].pc = "commentCreate"
  /\ LET created == [id |-> sids.comment + 1, postId |-> req[p].id,
                     userId |-> req[p].user]
     IN /\ comments' = comments \cup {created}
        /\ sids' = [sids EXCEPT !.comment = @ + 1]
        /\ posts' = {IF q.id = req[p].id THEN [q EXCEPT !.commentsCount = @ + 1] ELSE q :
                       q \in posts}
        /\ Set(p, Finish([req[p] EXCEPT !.ret = Some(created)], "ok"))
  /\ UNCHANGED <<dbvars, now, foodvars, likes, friends, challengevars>>

\* orderBy createdAt desc, id desc: the newest comment first
RECURSIVE NewestFirst(_)
NewestFirst(S) ==
  IF S = {} THEN <<>>
  ELSE LET m == CHOOSE x \in S : \A y \in S : y.id <= x.id
       IN <<m>> \o NewestFirst(S \ {m})

\* feed.service lines 188-205: the first limit comments of the post
CommentsFind(p) ==
  /\ req[p].pc = "commentsFind"
  /\ Set(p, Finish([req[p] EXCEPT
                      !.ret = Some(Take(NewestFirst({c \in comments : c.postId = req[p].id}),
                                        0, Val(req[p].val)))], "ok"))
  /\ UNCHANGED <<dbvars, now, foodvars, socialvars>>

\* a catalog three createFoodItem calls leave: per serving of 100 g, 100 g
\* and 30 g
Catalog ==
  {[id |-> 1, name |-> <<"d", "a", "l">>, source |-> "user-added", calories |-> 100,
    carbs |-> 7, protein |-> 3, fat |-> 1, servingSize |-> 100,
    category |-> Some("lentils")],
   [id |-> 2, name |-> <<"r", "o", "t", "i">>, source |-> "user-added", calories |-> 50,
    carbs |-> 11, protein |-> 2, fat |-> 0, servingSize |-> 100,
    category |-> Some("breads")],
   [id |-> 3, name |-> <<"i", "d", "l", "i">>, source |-> "user-added", calories |-> 55,
    carbs |-> 7, protein |-> 2, fat |-> 1, servingSize |-> 30,
    category |-> Null]}

InitCatalog ==
  /\ EmptyStore
  /\ EmptySocial
  /\ foodItems = Catalog
  /\ basketItems = {}
  /\ fids = [food |-> Cardinality(Catalog), basket |-> 0]
  /\ now = 0
  /\ req = [p \in Procs |-> Idle]

BasketIds == 1..MaxBasket
MealTypes == {Null, Some("lunch")}
\* quantity and servingSize of the body: omitted, or given
AddInputs == {<<Null, Null>>, <<Some(2), Some(50)>>}
UpdateInputs == {<<Null, Null>>, <<Some(3), Null>>, <<Some(3), Some(100)>>}

\* one request at a time, of two users: the basket operations on two foods
NextBasket ==
  \E p \in SeqProcs, u \in Users :
    \/ \E f \in {Null, Some(1), Some(2)}, in \in AddInputs :
         fids.basket < MaxBasket /\ addToBasket(p, u, f, in[1], in[2])
    \/ BasketFind(p)
    \/ BasketUpdateExisting(p)
    \/ BasketCreate(p)
    \/ \E i \in BasketIds, in \in UpdateInputs :
         updateBasketItem(p, u, i, in[1], in[2])
    \/ ItemUpdate(p)
    \/ \E i \in BasketIds : removeFromBasket(p, u, i)
    \/ ItemFind(p)
    \/ ItemDelete(p)
    \/ \E mt \in MealTypes : createMealFromBasket(p, u, mt)
    \/ MealBasket(p)
    \/ MealClear(p)

SpecBasket == InitCatalog /\ [][NextBasket]_vars

Quantities == {Null} \cup {Some(n) : n \in 0..MaxQuantity}
ServingSizes == {Null, Some(50)}

\* one request at a time, one user: baskets of the three foods, made into meals
NextMeal ==
  \E p \in SeqProcs :
    \/ \E f \in 1..Cardinality(Catalog), q \in Quantities, ss \in ServingSizes :
         fids.basket < MaxItems /\ addToBasket(p, TheUser, Some(f), q, ss)
    \/ BasketFind(p)
    \/ BasketUpdateExisting(p)
    \/ BasketCreate(p)
    \/ createMealFromBasket(p, TheUser, Some("lunch"))
    \/ MealBasket(p)
    \/ MealClear(p)

SpecMeal == InitCatalog /\ [][NextMeal]_vars

\* concurrent requests of one user: addToBasket of two foods
NextBasketRace ==
  \E p \in Procs :
    \/ \E f \in {1, 2}, in \in AddInputs : addToBasket(p, TheUser, Some(f), in[1], in[2])
    \/ BasketFind(p)
    \/ BasketUpdateExisting(p)
    \/ BasketCreate(p)

SpecBasketRace == InitCatalog /\ [][NextBasketRace]_vars

SearchTexts ==
  {Null, Some(<<>>), Some(<<" ">>), Some(<<"d", "a", "l">>),
   Some(<<"D", "O", "S", "A">>), Some(<<"x">>)}
SearchParams ==
  {[search |-> t, category |-> c, page |-> pg, limit |-> l] :
     t \in SearchTexts, c \in {Null, Some("lentils"), Some("snacks")},
     pg \in {Null, Some(2)}, l \in {Null, Some(1)}}

\* one request at a time: searches of the catalog
NextSearch ==
  \E p \in SeqProcs :
    \/ \E u \in {0, TheUser}, params \in SearchParams : searchFoodItems(p, u, params)
    \/ SearchLocal(p)
    \/ Scrape(p)
    \/ \E k \in 1..Len(WebItems) : ImportFind(p, k)
    \/ \E k \in 1..Len(WebItems) : ImportWrite(p, k)
    \/ ReSearch(p)

SpecSearch == InitCatalog /\ [][NextSearch]_vars

\* items a caller imports: three versions of "dal" without a source (stored
\* as 'scraped'), one of the catalog's own "dal", and a scraped item
DalName == <<"d", "a", "l">>
ImportItems ==
  {[name |-> DalName, source |-> Null, calories |-> 100, carbs |-> 7,
    protein |-> 3, fat |-> 1, servingSize |-> Some(50), category |-> Some("lentils")],
   [name |-> DalName, source |-> Null, calories |-> 120, carbs |-> 9,
    protein |-> 4, fat |-> 2, servingSize |-> Null, category |-> Some("pulses")],
   [name |-> DalName, source |-> Null, calories |-> 130, carbs |-> 9,
    protein |-> 4, fat |-> 2, servingSize |-> Null, category |-> Null],
   [name |-> DalName, source |-> Some("user-added"), calories |-> 90, carbs |-> 6,
    protein |-> 3, fat |-> 1, servingSize |-> Null, category |-> Some("snacks")],
   WebItems[1]}
PairOf(item) == <<item.name, SourceValue(item)>>
\* the lists of up to MaxBatch items, no two of one (name, source)
Batches ==
  {b \in UNION {[1..n -> ImportItems] : n \in 0..MaxBatch} :
     \A i \in DOMAIN b, j \in DOMAIN b : i # j => PairOf(b[i]) # PairOf(b[j])}

\* one call at a time: imports, and reads of the categories
NextImport ==
  \E p \in SeqProcs :
    \/ \E b \in Batches : bulkImportFoodItems(p, b)
    \/ \E k \in 1..MaxBatch : ImportFind(p, k)
    \/ \E k \in 1..MaxBatch : ImportWrite(p, k)
    \/ getCategories(p)

SpecImport == InitCatalog /\ [][NextImport]_vars

\* user 1 has user 2 in the friend list; nobody has user 1
InitFeed ==
  /\ EmptyStore
  /\ EmptyFood
  /\ posts = {}
  /\ likes = {}
  /\ comments = {}
  /\ friends = {[userId |-> 1, friendUid |-> 2]}
  /\ sids = [post |-> 0, comment |-> 0, challenge |-> 0, enrollment |-> 0]
  /\ challenges = {}
  /\ enrollments = {}
  /\ now = 0
  /\ req = [p \in Procs |-> Idle]

PostIds == 1..MaxPosts

\* concurrent requests of two users: public posts, and likes of the posts
\* that exist
LikeUsers == {TheUser, TheUser + 1}
NextLikeRace ==
  \E p \in Procs, u \in LikeUsers :
    \/ sids.post < MaxPosts /\ createPost(p, u, Some("text"), Null)
    \/ \E i \in {q.id : q \in posts} : toggleLike(p, u, i)
    \/ GetFriendUids(p)
    \/ GetAccessiblePost(p)
    \/ LikeFind(p)
    \/ LikeWrite(p)

SpecLikeRace == InitFeed /\ [][NextLikeRace]_vars

\* one request at a time: force-scrapes, and reads of the categories
NextScrape ==
  \E p \in SeqProcs :
    \/ \E u \in {0, TheUser}, q \in {Null, Some(<<>>), Some(<<"d", "a", "l">>), Some(<<"x">>)},
         l \in {Null, Some(0), Some(1)} :
         scrapeFood(p, u, q, l)
    \/ ForceScrape(p)
    \/ \E k \in 1..Len(WebItems) : ImportFind(p, k)
    \/ \E k \in 1..Len(WebItems) : ImportWrite(p, k)
    \/ getCategories(p)

SpecScrape == InitCatalog /\ [][NextScrape]_vars

\* one request at a time, of two users: posts of either visibility, likes
\* and comments
FeedUsers == {1, 2}
NextFeed ==
  \E p \in SeqProcs, u \in FeedUsers :
    \/ \E c \in {Null, Some("text")}, v \in {Null, Some("friends")} :
         sids.post < MaxPosts /\ createPost(p, u, c, v)
    \/ \E i \in 1..MaxPosts : toggleLike(p, u, i)
    \/ \E i \in 1..MaxPosts, t \in {Null, Some("text")} :
         sids.comment < MaxComments /\ addComment(p, u, i, t)
    \/ \E i \in 1..MaxPosts, l \in {Null, Some(1)} : listComments(p, u, i, l)
    \/ GetFriendUids(p)
    \/ GetAccessiblePost(p)
    \/ LikeFind(p)
    \/ LikeWrite(p)
    \/ CommentCreate(p)
    \/ CommentsFind(p)

SpecFeed == InitFeed /\ [][NextFeed]_vars

\* a store that holds two aggregate rows of one key from the start
InitDuplicates ==
  /\ daily = {[id |-> 1, user |-> TheUser, date |-> TheDate, caloriesConsumed |-> 1,
               caloriesBurned |-> 0, waterIntake |-> 0],
              [id |-> 2, user |-> TheUser, date |-> TheDate, caloriesConsumed |-> 0,
               caloriesBurned |-> 1, waterIntake |-> 0]}
  /\ meals = {}
  /\ workouts = {}
  /\ waterEntries = {}
  /\ sessions = {}
  /\ ids = [daily |-> 2, meal |-> 0, workout |-> 0, water |-> 0, session |-> 0]
  /\ EmptyFood
  /\ EmptySocial
  /\ now = 0
  /\ req = [p \in Procs |-> Idle]

\* concurrent saveDailyHealthData requests on the doubled key and on a free
\* one; the branches of the catch block are part of every request
NextDuplicates ==
  \E p \in Procs :
    \/ \E d \in 1..MaxDates, c \in Calories, w \in Glasses :
         saveDailyHealthData(p, TheUser, d, c, MaxCal - c, w)
    \/ SaveUpsertFind(p)
    \/ SaveUpsertWrite(p)
    \/ SaveCatchFind(p)
    \/ SaveCatchUpdate(p)

SpecDuplicates == InitDuplicates /\ [][NextDuplicates]_vars

\* the catalog, and the baskets two addToBasket calls leave: one item for
\* each of two users
InitBaskets ==
  /\ EmptyStore
  /\ EmptySocial
  /\ foodItems = Catalog
  /\ basketItems = {[id |-> 1, userId |-> 1, foodItemId |-> 1, quantity |-> 1,
                     servingSize |-> 100],
                    [id |-> 2, userId |-> 2, foodItemId |-> 2, quantity |-> 2,
                     servingSize |-> 50]}
  /\ fids = [food |-> Cardinality(Catalog), basket |-> 2]
  /\ now = 0
  /\ req = [p \in Procs |-> Idle]

\* concurrent createMealFromBasket requests of the two users
NextMealRace ==
  \E p \in Procs :
    \/ \E u \in {1, 2}, mt \in {Null, Some("lunch"), Some("dinner")} :
         createMealFromBasket(p, u, mt)
    \/ MealBasket(p)
    \/ MealClear(p)

SpecMealRace == InitBaskets /\ [][NextMealRace]_vars

\* two versions of one (name, source), alone and together in one list
RaceItems == {x \in ImportItems : x.name = DalName /\ x.source = Null /\ x.category # Null}
RaceBatches ==
  {b \in UNION {[1..n -> RaceItems] : n \in 1..MaxBatch} :
     \A i \in DOMAIN b, j \in DOMAIN b : i # j => b[i] # b[j]}

\* concurrent bulkImportFoodItems calls while the catalog has fewer than
\* MaxFood rows
NextImportRace ==
  \E p \in Procs :
    \/ \E b \in RaceBatches : fids.food < MaxFood /\ bulkImportFoodItems(p, b)
    \/ \E k \in 1..MaxBatch : ImportFind(p, k)
    \/ \E k \in 1..MaxBatch : ImportWrite(p, k)

SpecImportRace == InitCatalog /\ [][NextImportRace]_vars

\* one request at a time, and the clock: fasting sessions with a target of
\* one hour or none, and every child mutator
NextChildFast ==
  \/ Tick
  \/ \E p \in SeqProcs :
       \/ GetFastingStep(p)
       \/ \E tg \in {Null, Some(TicksPerHour)} :
            startFastingSession(p, TheUser, TheDate, "16:8", tg)
       \/ CreateSession(p)
       \/ addMeal(p, TheUser, TheDate, 1)
       \/ CreateMeal(p)
       \/ IncrementConsumed(p)
       \/ addWaterEntry(p, TheUser, TheDate, 1)
       \/ CreateWaterEntry(p)
       \/ IncrementWater(p)
       \/ addWorkout(p, TheUser, TheDate, 1)
       \/ CreateWorkout(p)
       \/ IncrementBurned(p)
       \/ \E i \in MealIds : updateMeal(p, TheUser, i, Some(2))
       \/ UpdateMealFind(p)
       \/ UpdateMealWrite(p)
       \/ UpdateMealFindDaily(p)
       \/ UpdateMealTotal(p)
       \/ \E i \in MealIds : deleteMeal(p, TheUser, i)
       \/ DeleteMealFind(p)
       \/ DeleteMealDelete(p)
       \/ DeleteMealFindDaily(p)
       \/ DeleteMealTotal(p)
       \/ \E i \in WorkoutIds : updateWorkout(p, TheUser, i, Some(2))
       \/ UpdateWorkoutFind(p)
       \/ UpdateWorkoutWrite(p)
       \/ UpdateWorkoutFindDaily(p)
       \/ UpdateWorkoutTotal(p)
       \/ \E i \in WorkoutIds : deleteWorkout(p, TheUser, i)
       \/ DeleteWorkoutFind(p)
       \/ DeleteWorkoutDelete(p)
       \/ DeleteWorkoutFindDaily(p)
       \/ DeleteWorkoutTotal(p)

SpecChildFast == Init /\ [][NextChildFast]_vars

HasChildren(row) ==
  MealsOf(row.id) \cup WorkoutsOf(row.id) \cup WaterOf(row.id) # {}

Returned(p, o) == req[p].pc = "done" /\ req[p].op = o

\* C1: after each call of a sequential run of the meal and workout mutators on
\* one aggregate, caloriesConsumed is the sum of the calories of its meals,
\* caloriesBurned the sum of totalCaloriesBurned of its workouts, neither
\* negative (updates to 0 and updates without the field included).
C1_TotalsEqualSums ==
  Quiet =>
    \A row \in daily :
      /\ row.caloriesConsumed = SumOf(MealsOf(row.id), "calories")
      /\ row.caloriesBurned = SumOf(WorkoutsOf(row.id), "totalCaloriesBurned")
      /\ row.caloriesConsumed >= 0
      /\ row.caloriesBurned >= 0

\* C2: after saveDailyHealthData on an aggregate that has meals, workouts or
\* water entries, the three totals still equal the sums over its children.
C2_TotalsSurviveSave ==
  \A p \in Procs :
    Returned(p, "saveDaily") /\ Quiet =>
      \A row \in daily : HasChildren(row) => TotalsMatch(row)

\* C6: with non-negative inputs, after every call of a sequential run of the
\* child mutators and saveDailyHealthData no running total is below zero.
C6_TotalsNonNegative ==
  Quiet =>
    \A row \in daily :
      /\ row.caloriesConsumed >= 0
      /\ row.caloriesBurned >= 0
      /\ row.waterIntake >= 0

\* C5: concurrent saveDailyHealthData calls for one key never surface an
\* error and never leave a second row for the key; once all have returned,
\* the one row of the key holds the totals one of them wrote.
C5_RaceSafeUpsert ==
  /\ \A p \in Procs : Returned(p, "saveDaily") => req[p].result = "ok"
  /\ Cardinality(RowsOf(daily, TheUser, TheDate)) <= 1
  /\ (Quiet /\ \E p \in Procs : Returned(p, "saveDaily")) =>
       \E row \in RowsOf(daily, TheUser, TheDate) :
         \E p \in Procs :
           /\ Returned(p, "saveDaily")
           /\ row.caloriesConsumed = Val(req[p].ret).caloriesConsumed
           /\ row.caloriesBurned = Val(req[p].ret).caloriesBurned
           /\ row.waterIntake = Val(req[p].ret).waterIntake

\* two calls raced to create the key: one created the row, the other ran into
\* the unique violation and wrote through its catch block, with other totals
C5_Witness ==
  \E p \in Procs, q \in Procs :
    /\ Returned(p, "saveDaily") /\ Val(req[p].ret).path = "create"
    /\ Returned(q, "saveDaily") /\ Val(req[q].ret).path = "catch"
    /\ req[q].result = "ok"
    /\ Val(req[p].ret).caloriesConsumed # Val(req[q].ret).caloriesConsumed
    /\ Cardinality(daily) = 1

\* C3: once all of a set of concurrent addMeal, updateMeal and deleteMeal
\* requests on one aggregate have completed, caloriesConsumed is the sum of
\* the calories of the meals that remain.
C3_NoLostUpdate ==
  Quiet => \A row \in daily : row.caloriesConsumed = SumOf(MealsOf(row.id), "calories")

CreatingOps == AddOps \cup {"startFasting", "saveFasting"}

\* C4: of concurrent child mutators for a key that has no aggregate yet, none
\* fails on the unique violation of (userId, date): the loser of the creation
\* race goes on with the row the winner created.
C4_CreationRaceTolerated ==
  \A p \in Procs :
    req[p].pc = "done" /\ req[p].op \in CreatingOps =>
      req[p].result # "P2002 userId_date"

ActiveSessionsOf(i) == {s \in SessionsOf(i) : s.endTime = Null}

\* the target of session s is set and reached at time t
TargetReached(s, t) ==
  s.targetDuration # Null /\ t - s.startTime >= Val(s.targetDuration) * TicksPerHour

IsStart(p) == req[p].op = "startFasting" /\ req[p].pc # "done" /\ req'[p].pc = "done"

\* C7: a startFastingSession that returns while the session of the key is
\* active with its target not reached fails with Conflict and leaves the stored
\* session as it is; one that returns when the key has no session has created
\* a session with startTime = now, endTime = null and duration = 0.
C7_StartConflictOrCreate ==
  [][\A p \in SeqProcs :
       IsStart(p) =>
         /\ (\E s \in sessions : s.endTime = Null /\ ~TargetReached(s, now)) =>
              (req'[p].result = "Conflict" /\ sessions' = sessions)
         /\ sessions = {} =>
              /\ req'[p].result = "ok"
              /\ \E s \in sessions' :
                   /\ sessions' = {s}
                   /\ s.startTime = now /\ s.endTime = Null /\ s.duration = 0
                   /\ s.type = Val(req[p].val2)]_vars

\* a start of another type was refused with Conflict, an hour or more after
\* the active session without target began
C7_Witness ==
  \E p \in SeqProcs :
    /\ Returned(p, "startFasting") /\ req[p].result = "Conflict"
    /\ \E s \in sessions :
         /\ s.endTime = Null /\ s.duration = 0 /\ s.type = "16:8"
         /\ s.targetDuration = Null
         /\ now - s.startTime >= TicksPerHour

\* C8: a startFastingSession that returns leaves an active session for the
\* key: it is refused only while one is active, and succeeds once the session
\* is completed (by end, by a read's auto-completion or by a save with endTime).
C8_StartAfterCompleted ==
  \A p \in SeqProcs :
    Returned(p, "startFasting") => \E s \in sessions : s.endTime = Null

\* C9: an aggregate never has two active fasting sessions, whatever the
\* interleaving, and of the starts for one key no two succeed.
C9_OneActiveSession ==
  /\ \A row \in daily : Cardinality(ActiveSessionsOf(row.id)) <= 1
  /\ \A p \in Procs, q \in Procs :
       (/\ p # q
        /\ Returned(p, "startFasting") /\ req[p].result = "ok"
        /\ Returned(q, "startFasting")) => req[q].result # "ok"

\* two starts raced past the check for an active session: one created the
\* session, the other ran into the unique index
C9_Witness ==
  \E p \in Procs, q \in Procs :
    /\ Returned(p, "startFasting") /\ req[p].result = "ok"
    /\ Returned(q, "startFasting") /\ req[q].result = "P2002 dailyHealthDataId"
    /\ Cardinality(sessions) = 1

ReadOps == {"getDaily", "getWeekly"}

\* the aggregates a finished read returned
ReturnedAggregates(p) ==
  IF req[p].ret = Null THEN {}
  ELSE IF req[p].op = "getDaily" THEN {Val(req[p].ret)}
  ELSE Val(req[p].ret)

\* C10: no read returns a session that is active although the time elapsed
\* since its startTime has reached its targetDuration; and when a read has
\* auto-completed a session, the stored session has its endTime set and its
\* duration equal to the targetDuration.
C10_ReadsAutoComplete ==
  \A p \in SeqProcs :
    /\ (req[p].pc = "done" /\ req[p].op \in ReadOps) =>
         \A agg \in ReturnedAggregates(p) :
           agg.fastingSession # Null =>
             ~(/\ Val(agg.fastingSession).endTime = Null
               /\ TargetReached(Val(agg.fastingSession), req[p].at))
    /\ (req[p].pc \in {"getRefetch", "weekRefetch"} /\ req[p].op \in ReadOps) =>
         \A s \in sessions : s.endTime # Null /\ s.duration = Val(s.targetDuration)

\* C11: an endFastingSession in flight on a key whose stored session is active
\* leaves it as it is until it returns, and returns with success, having stored
\* endTime = the time it read the clock and duration = the rounded hours elapsed
\* since startTime; a session already past its target is no exception.
C11_EndStoresElapsed ==
  [][\A p \in SeqProcs :
       (/\ req[p].op = "endFasting" /\ req[p].pc \notin {"idle", "done"}
        /\ req'[p] # req[p]
        /\ \E s \in sessions : s.endTime = Null) =>
         IF req'[p].pc = "done"
         THEN /\ req'[p].result = "ok"
              /\ \A s \in sessions' :
                   /\ s.endTime = Some(req[p].at)
                   /\ s.duration = Round(req[p].at - s.startTime)
         ELSE sessions' = sessions]_vars

ElapsedRule(e) == IF 2 * e < TicksPerHour THEN 1 ELSE Round(e)

\* C13: a saveFastingSession that succeeds with neither an endTime nor a
\* targetDuration stores the duration the time elapsed since startTime gives (1
\* under half an hour, else the rounded hours), whatever duration field the
\* caller supplied.
C13_DurationFromElapsed ==
  [][\A p \in SeqProcs :
       (/\ req[p].op = "saveFasting" /\ req[p].pc = "sessUpsertWrite"
        /\ req'[p].pc = "done" /\ req'[p].result = "ok"
        /\ Val(req[p].sess).endTime = Null
        /\ Val(req[p].sess).targetDuration = Null) =>
         \A s \in sessions' :
           s.duration = ElapsedRule(req[p].at - s.startTime)]_vars

EditOps == {"updateMeal", "deleteMeal", "updateWorkout", "deleteWorkout"}

\* the child that request p names exists and hangs off an aggregate of its user
OwnedChild(p) ==
  LET table == IF req[p].op \in {"updateMeal", "deleteMeal"} THEN meals ELSE workouts
  IN \E c \in ById(table, req[p].id) :
       \E row \in ById(daily, c.dailyHealthDataId) : row.user = req[p].user

\* C14: an update or delete of a meal or workout whose id does not exist, or
\* whose aggregate is another user's, ends at its lookup with NotFound and
\* changes nothing; every write of such a request is to an aggregate of the
\* calling user or to a child of it.
C14_OnlyOwnerEdits ==
  [][\A p \in SeqProcs :
       (req[p].op \in EditOps /\ req[p].pc # "done" /\ req'[p] # req[p]) =>
         /\ (req[p].pc = "findChild" /\ ~OwnedChild(p)) =>
              /\ req'[p].pc = "done" /\ req'[p].result = "NotFound"
              /\ UNCHANGED dbvars
         /\ dbvars' # dbvars =>
              \E row \in ById(daily, req[p].dailyId) : row.user = req[p].user]_vars

\* C15: a createMealFromBasket that finds the caller's basket empty is answered
\* 400 VALIDATION_ERROR and changes nothing; one that succeeds has deleted
\* every basket item of the caller and no basket item of another user, so the
\* caller's basket is empty for the next request.
C15_MealClearsOwnBasket ==
  [][\A p \in SeqProcs :
       (req[p].op = "createMealFromBasket" /\ req[p].pc # "done"
        /\ req'[p].pc = "done") =>
         IF BasketOf(req[p].user) = {}
         THEN /\ req'[p].result = "400 VALIDATION_ERROR"
              /\ UNCHANGED <<dbvars, foodvars>>
         ELSE /\ req'[p].result = "ok"
              /\ basketItems' = {b \in basketItems : b.userId # req[p].user}
              /\ UNCHANGED <<dbvars, foodItems>>]_vars

\* a meal was made of a basket while another user's basket held items
C15_Witness ==
  \E p \in SeqProcs :
    /\ Returned(p, "createMealFromBasket") /\ req[p].result = "ok"
    /\ req[p].ret # Null
    /\ basketItems # {}

\* a common denominator of the scale factors: the product of the serving
\* sizes in the catalog
RECURSIVE ProductOf(_)
ProductOf(S) ==
  IF S = {} THEN 1 ELSE LET x == CHOOSE y \in S : TRUE IN x * ProductOf(S \ {x})

Denominator == ProductOf({f.servingSize : f \in foodItems})

\* the sum over basket B of foodItem[f] * (quantity * servingSize) /
\* foodItem.servingSize, times Denominator
RECURSIVE ScaledTotal(_, _)
ScaledTotal(B, f) ==
  IF B = {} THEN 0
  ELSE LET b == CHOOSE y \in B : TRUE
           food == Row(foodItems, b.foodItemId)
       IN food[f] * b.quantity * b.servingSize * (Denominator \div food.servingSize)
            + ScaledTotal(B \ {b}, f)

\* r is x / Denominator rounded to the nearest integer, halves up
IsRounded(r, x) ==
  2 * r * Denominator - Denominator <= 2 * x /\ 2 * x < 2 * r * Denominator + Denominator

\* the basket of the example: 100 cal per 100 g, quantity 2, servingSize 100,
\* and 50 cal per 100 g, quantity 1, servingSize 50
ExampleBasket(B) ==
  /\ Cardinality(B) = 2
  /\ \E b \in B : b.foodItemId = 1 /\ b.quantity = 2 /\ b.servingSize = 100
  /\ \E b \in B : b.foodItemId = 2 /\ b.quantity = 1 /\ b.servingSize = 50

\* C16: the meal createMealFromBasket returns for a non-empty basket has
\* calories = the sum of calories * (quantity * servingSize) / servingSize of
\* the food, rounded to the nearest integer, and carbs, protein and fat the
\* like sums rounded to a tenth; for the basket of the example the calories
\* are 225.
C16_MealTotals ==
  [][\A p \in SeqProcs :
       (req[p].pc = "mealClear" /\ req'[p].pc = "done") =>
         LET B == BasketOf(req[p].user)
             meal == Val(req'[p].ret)
         IN /\ req'[p].result = "ok"
            /\ IsRounded(meal.calories, ScaledTotal(B, "calories"))
            /\ IsRounded(meal.carbs, 10 * ScaledTotal(B, "carbs"))
            /\ IsRounded(meal.protein, 10 * ScaledTotal(B, "protein"))
            /\ IsRounded(meal.fat, 10 * ScaledTotal(B, "fat"))
            /\ ExampleBasket(B) => meal.calories = 225]_vars

\* the totals of the basket of the example have been computed: 225 calories
C16_Witness ==
  \E p \in SeqProcs :
    /\ req[p].op = "createMealFromBasket" /\ req[p].pc = "mealClear"
    /\ ExampleBasket(BasketOf(req[p].user))
    /\ Val(req[p].ret).calories = 225

ItemsOf(B, u, f) == {b \in B : b.userId = u /\ b.foodItemId = f}

\* C17: whatever the interleaving of addToBasket requests, a user has at most
\* one basket item per food; an addToBasket that succeeds leaves the caller's
\* item for that food with the quantity and servingSize of the request, and,
\* when the basket already held the food, no row more than before.
C17_OneItemPerFood ==
  [][/\ \A b \in basketItems' : Cardinality(ItemsOf(basketItems', b.userId, b.foodItemId)) = 1
     /\ \A p \in Procs :
          (/\ req[p].op = "addToBasket" /\ req[p].pc # "done"
           /\ req'[p].pc = "done" /\ req'[p].result = "ok") =>
            /\ \E b \in ItemsOf(basketItems', req[p].user, req[p].id) :
                 /\ b.quantity = Val(req[p].val)
                 /\ b.servingSize = Val(req[p].val2)
            /\ ItemsOf(basketItems, req[p].user, req[p].id) # {} =>
                 Cardinality(basketItems') = Cardinality(basketItems)]_vars

\* two addToBasket requests for one food raced past the lookup: one created
\* the item, the other ran into the unique index, and one row exists
C17_Witness ==
  \E p \in Procs, q \in Procs :
    /\ Returned(p, "addToBasket") /\ req[p].result = "ok"
    /\ Returned(q, "addToBasket") /\ req[q].result = "500"
    /\ Cardinality(basketItems) = 1

BasketEditOps == {"updateBasketItem", "removeFromBasket"}

\* C18: an updateBasketItem or removeFromBasket request that reaches the store
\* with the id of a basket item that does not exist or belongs to another user
\* is answered 404 NOT_FOUND and leaves the basket items as they were; so a
\* basket item changes or disappears only by a request of its owner.
C18_ForeignItemNotFound ==
  [][\A p \in SeqProcs :
       (/\ req[p].op \in BasketEditOps /\ req[p].pc \notin {"idle", "done"}
        /\ req'[p].pc = "done"
        /\ \A b \in ById(basketItems, req[p].id) : b.userId # req[p].user) =>
         /\ req'[p].result = "404 NOT_FOUND"
         /\ basketItems' = basketItems]_vars

\* C19: a search request starts the external fetch only from a local answer
\* with zero items to a query text that is not blank; and once it has started
\* the fetch it ends as a success: when the fetch or the search after the
\* import failed, with the empty local answer it had.
C19_SearchBestEffort ==
  [][\A p \in SeqProcs :
       /\ (req'[p].pc = "scrape" /\ req[p].pc # "scrape") =>
            /\ Val(req'[p].ret).items = <<>>
            /\ Val(req'[p].ret) \in SearchAnswers(req'[p].query)
            /\ req'[p].query.search # Null
            /\ \E i \in DOMAIN Val(req'[p].query.search) :
                 Val(req'[p].query.search)[i] # " "
       /\ (req[p].pc \in {"scrape", "import", "reSearch"} /\ req'[p].pc = "done") =>
            /\ req'[p].result = "ok"
            /\ req'[p].err # Null =>
                 /\ req'[p].ret = req[p].ret
                 /\ Val(req'[p].ret).items = <<>>]_vars

\* the fetch was rejected and the search was answered with the empty result
C19_Witness ==
  \E p \in SeqProcs :
    /\ Returned(p, "searchFoodItems")
    /\ req[p].err = Some("scrape")
    /\ req[p].result = "ok"
    /\ Val(req[p].ret).items = <<>>

PairRows(F, pair) == {f \in F : f.name = pair[1] /\ f.source = pair[2]}
Occurrences(s, x) == Cardinality({i \in DOMAIN s : s[i] = x})

\* C20: calls of bulkImportFoodItems one after the other, each with at most
\* one item per (name, source): the write of an item leaves exactly one row of
\* its pair, which carries the item's calories, carbs, protein and fat and, if
\* the item has one, its category; a row that was there keeps its id and no
\* row is added.  getCategories then lists the category of every row once.
C20_ImportUpdatesInPlace ==
  [][\A p \in SeqProcs :
       /\ \A k \in DOMAIN req[p].prog :
            (/\ req[p].op = "bulkImportFoodItems"
             /\ req[p].prog[k].pc = "write"
             /\ req'[p].pc = "done" \/ req'[p].prog[k].pc # "write") =>
              LET item == req[p].items[k]
                  before == PairRows(foodItems, PairOf(item))
                  after == PairRows(foodItems', PairOf(item))
              IN /\ Cardinality(after) = 1
                 /\ \A f \in after :
                      /\ f.calories = item.calories /\ f.carbs = item.carbs
                      /\ f.protein = item.protein /\ f.fat = item.fat
                      /\ item.category # Null => f.category = item.category
                 /\ before # {} =>
                      /\ {f.id : f \in after} = {f.id : f \in before}
                      /\ Cardinality(foodItems') = Cardinality(foodItems)
       /\ (req'[p].op = "getCategories" /\ req'[p] # req[p]) =>
            /\ \A f \in foodItems :
                 f.category # Null => Occurrences(Val(req'[p].ret), Val(f.category)) = 1
            /\ \A i \in DOMAIN Val(req'[p].ret) :
                 \E f \in foodItems : f.category = Some(Val(req'[p].ret)[i])]_vars

\* the "dal" row that the first version created (serving of 50) has been
\* updated with the second (120 kcal, "pulses"), it is the only one of its
\* pair, and getCategories has listed "pulses"
C20_Witness ==
  \E p \in SeqProcs :
    /\ Returned(p, "getCategories")
    /\ Occurrences(Val(req[p].ret), "pulses") = 1
    /\ \E f \in foodItems :
         /\ PairRows(foodItems, <<DalName, "scraped">>) = {f}
         /\ f.servingSize = 50 /\ f.calories = 120 /\ f.category = Some("pulses")

LikesOf(L, i) == {l \in L : l.postId = i}

\* C21: whatever the interleaving of toggleLike requests, the likesCount of
\* every post is the number of like rows of the post, so never negative; and a
\* toggleLike that succeeds answers liked = true exactly when the caller had
\* no like row before and has one after, liked = false when the caller had
\* one and has none after, so that successive calls of a user alternate.
C21_LikesCountMirrorsRows ==
  [][/\ \A q \in posts' :
          q.likesCount = Cardinality(LikesOf(likes', q.id)) /\ q.likesCount >= 0
     /\ \A p \in Procs :
          (/\ req[p].op = "toggleLike" /\ req[p].pc # "done"
           /\ req'[p].pc = "done" /\ req'[p].result = "ok") =>
            LET mine == [postId |-> req[p].id, userId |-> req[p].user]
            IN /\ req'[p].ret = Some(mine \notin likes)
               /\ (mine \in likes') = (mine \notin likes)]_vars

\* two unlike requests of one user raced: one deleted the like row and
\* answered liked = false, the other failed, and the post has no like
C21_Witness ==
  \E p \in Procs, q \in Procs :
    /\ Returned(p, "toggleLike") /\ req[p].result = "ok" /\ req[p].ret = Some(FALSE)
    /\ Returned(q, "toggleLike") /\ req[q].result = "500"
    /\ likes = {}
    /\ \E post \in posts : post.likesCount = 0

PostOps == {"toggleLike", "addComment", "listComments"}
\* the post i exists and user u may see it: it is public, or u is its author
\* or has its author in the friend list
MaySee(u, i) ==
  \E post \in ById(posts, i) :
    \/ post.visibility = "public"
    \/ post.userId = u
    \/ [userId |-> u, friendUid |-> post.userId] \in friends

\* C23: no step of a toggleLike, addComment or listComments request on a post
\* the caller may not see changes a post, a like or a comment, and the request
\* ends with 404 NOT_FOUND; on a post the caller may see, public posts
\* included, it ends as a success.
C23_InaccessiblePostNotFound ==
  [][\A p \in SeqProcs :
       (req[p].op \in PostOps /\ req[p].pc \notin {"idle", "done"}) =>
         IF MaySee(req[p].user, req[p].id)
         THEN req'[p].pc = "done" => req'[p].result = "ok"
         ELSE /\ UNCHANGED <<posts, likes, comments>>
              /\ req'[p].pc = "done" => req'[p].result = "404 NOT_FOUND"]_vars

\* every post that can exist exists and is for friends only, none of them has
\* a like, and a toggleLike has been answered 404
C23_Witness ==
  \E p \in SeqProcs :
    /\ Returned(p, "toggleLike") /\ req[p].result = "404 NOT_FOUND"
    /\ sids.post = MaxPosts
    /\ \A post \in posts : post.visibility = "friends" /\ post.likesCount = 0
    /\ likes = {}

\* C24: a saveDailyHealthData that returns for a key with several aggregate
\* rows has answered without error and leaves one row of the key: the oldest,
\* with the totals of the request.
C24_DuplicatesHealed ==
  [][\A p \in Procs :
       (/\ req[p].op = "saveDaily" /\ req[p].pc # "done" /\ req'[p].pc = "done"
        /\ Cardinality(RowsOf(daily, req[p].user, req[p].date)) > 1) =>
         LET before == RowsOf(daily, req[p].user, req[p].date)
             after == RowsOf(daily', req[p].user, req[p].date)
         IN /\ req'[p].result = "ok"
            /\ Cardinality(after) = 1
            /\ \A r \in after :
                 /\ \A x \in before : r.id <= x.id
                 /\ r.caloriesConsumed = Val(req[p].val)
                 /\ r.caloriesBurned = Val(req[p].val2)
                 /\ r.waterIntake = Val(req[p].val3)]_vars

\* no request ever enters the reconciliation of duplicates
DuplicateBranchUnreached == \A p \in Procs : req[p].pc # "dupFind"

\* C25: in every state a stored fasting session whose targetDuration is set
\* has a duration of at most its targetDuration.
C25_DurationCapped ==
  \A s \in sessions : s.targetDuration # Null => s.duration <= Val(s.targetDuration)

\* the cap does hold for the sessions whose stored target is at least an hour
DurationCappedFromOneHour ==
  \A s \in sessions : Truthy(s.targetDuration) => s.duration <= Val(s.targetDuration)

\* C26: a stored fasting session that is completed (its endTime is set) is
\* never active again (endTime null) after a step of any request.
C26_CompletedStaysCompleted ==
  [][\A s \in sessions : \A t \in sessions' :
       (s.endTime # Null /\ t.id = s.id) => t.endTime # Null]_vars

\* C27: a basket content is made into a meal once: a createMealFromBasket
\* request that returns a meal summary returns that of the basket the caller
\* still has, which no other request has converted and cleared meanwhile.
C27_BasketConvertedOnce ==
  [][\A p \in Procs :
       (/\ req[p].op = "createMealFromBasket" /\ req[p].pc # "done"
        /\ req'[p].pc = "done" /\ req'[p].result = "ok") =>
         /\ BasketOf(req[p].user) # {}
         /\ req'[p].ret = Some(MealOf(GetBasketRows(req[p].user), Val(req[p].val)))]_vars

\* C28: in every state the catalog holds at most one food item of a name and
\* source.
C28_OneRowPerNameAndSource ==
  \A f \in foodItems, g \in foodItems :
    (f.name = g.name /\ f.source = g.source) => f.id = g.id

\* ----------------------------------------------------------- challenges
\* challenge.service lines 4-32: the slugs of DEFAULT_CHALLENGES, in order
DEFAULT_CHALLENGES == <<"weekly", "30-day", "75-day">>

DefaultSlugs == {DEFAULT_CHALLENGES[k] : k \in DOMAIN DEFAULT_CHALLENGES}

\* the unique index on challenge.slug
ChallengeBySlug(slug) == {c \in challenges : c.slug = slug}

\* the unique index challengeId_userId
EnrollmentOf(i, u) == {e \in enrollments : e.challengeId = i /\ e.userId = u}

\* challenge.controller lines 9-15: listChallenges begins with ensureDefaults
getChallenges(p, u) ==
  /\ Free(p)
  /\ IF u = 0
     THEN Set(p, Finish(Begin(p, "getChallenges", "ensureFind", u, 0), "401 AUTH_REQUIRED"))
     ELSE Set(p, [Begin(p, "getChallenges", "ensureFind", u, 0) EXCEPT
                    !.items = DEFAULT_CHALLENGES])
  /\ UNCHANGED <<dbvars, now, foodvars, socialvars>>

\* the loop of ensureDefaults moves to the next default, or ends
EnsureNext(r) ==
  IF Tail(r.items) = <<>>
  THEN [r EXCEPT !.pc = "challengesFind", !.items = <<>>]
  ELSE [r EXCEPT !.pc = "ensureFind", !.items = Tail(@)]

\* challenge.service lines 39-44: findUnique by slug
EnsureFind(p) ==
  /\ req[p].pc = "ensureFind"
  /\ IF ChallengeBySlug(Head(req[p].items)) # {}
     THEN Set(p, EnsureNext(req[p]))
     ELSE Set(p, [req[p] EXCEPT !.pc = "ensureCreate"])
  /\ UNCHANGED <<dbvars, now, foodvars, socialvars>>

\* challenge.service lines 48-59: create the missing default; the unique slug
\* rejects a second row, and the controller answers 500
EnsureCreate(p) ==
  /\ req[p].pc = "ensureCreate"
  /\ IF ChallengeBySlug(Head(req[p].items)) # {}
     THEN /\ Set(p, Finish(req[p], "500"))
          /\ UNCHANGED <<challenges, sids>>
     ELSE /\ challenges' = challenges \cup
                             {[id |-> sids.challenge + 1, slug |-> Head(req[p].items)]}
          /\ sids' = [sids EXCEPT !.challenge = @ + 1]
          /\ Set(p, EnsureNext(req[p]))
  /\ UNCHANGED <<dbvars, now, foodvars, posts, likes, comments, friends, enrollments>>

RECURSIVE OldestFirst(_)
OldestFirst(S) ==
  IF S = {} THEN <<>>
  ELSE LET m == CHOOSE x \in S : \A y \in S : x.id <= y.id
       IN <<m>> \o OldestFirst(S \ {m})

\* challenge.service lines 67-115: every challenge, oldest first, with its
\* number of enrollments and whether the caller is enrolled
ChallengesFind(p) ==
  /\ req[p].pc = "challengesFind"
  /\ LET sorted == OldestFirst(challenges)
         view(c) == [id |-> c.id, slug |-> c.slug,
                     enrolledCount |-> Cardinality({e \in enrollments : e.challengeId = c.id}),
                     isEnrolled |-> EnrollmentOf(c.id, req[p].user) # {}]
     IN Set(p, Finish([req[p] EXCEPT
                         !.ret = Some([k \in DOMAIN sorted |-> view(sorted[k])])], "ok"))
  /\ UNCHANGED <<dbvars, now, foodvars, socialvars>>

\* challenge.controller lines 23-30
enrollChallenge(p, u, slug) ==
  /\ Free(p)
  /\ IF u = 0
     THEN Set(p, Finish(Begin(p, "enrollChallenge", "challengeFind", u, 0),
                        "401 AUTH_REQUIRED"))
     ELSE Set(p, [Begin(p, "enrollChallenge", "challengeFind", u, 0) EXCEPT
                    !.query = Some(slug)])
  /\ UNCHANGED <<dbvars, now, foodvars, socialvars>>

\* challenge.controller lines 41-53: a missing score is refused
updateChallengeProgress(p, u, slug, score) ==
  /\ Free(p)
  /\ IF u = 0
     THEN Set(p, Finish(Begin(p, "updateChallengeProgress", "challengeFind", u, 0),
                        "401 AUTH_REQUIRED"))
     ELSE IF score = Null
     THEN Set(p, Finish(Begin(p, "updateChallengeProgress", "challengeFind", u, 0),
                        "400 VALIDATION_ERROR"))
     ELSE Set(p, [Begin(p, "updateChallengeProgress", "challengeFind", u, 0) EXCEPT
                    !.query = Some(slug), !.val = score])
  /\ UNCHANGED <<dbvars, now, foodvars, socialvars>>

\* challenge.service lines 119-122 and 142-145: findUnique by slug, or
\* 'Challenge not found', which the controller answers with 404
ChallengeFind(p) ==
  /\ req[p].pc = "challengeFind"
  /\ IF ChallengeBySlug(Val(req[p].query)) = {}
     THEN Set(p, Finish(req[p], "404 NOT_FOUND"))
     ELSE Set(p, [req[p] EXCEPT
                    !.pc = "enrollmentUpsert",
                    !.id = (CHOOSE c \in ChallengeBySlug(Val(req[p].query)) : TRUE).id])
  /\ UNCHANGED <<dbvars, now, foodvars, socialvars>>

\* challenge.service lines 124-136 and 147-162: upsert on challengeId_userId;
\* enroll updates nothing and creates without a score, updateProgress writes
\* the score either way
EnrollmentUpsert(p) ==
  /\ req[p].pc = "enrollmentUpsert"
  /\ LET found == EnrollmentOf(req[p].id, req[p].user)
         score == IF req[p].op = "updateChallengeProgress" THEN req[p].val ELSE Null
     IN IF found # {}
        THEN /\ enrollments' =
                  IF req[p].op = "updateChallengeProgress"
                  THEN {IF e \in found THEN [e EXCEPT !.score = score] ELSE e :
                          e \in enrollments}
                  ELSE enrollments
             /\ UNCHANGED sids
        ELSE /\ enrollments' = enrollments \cup
                                 {[id |-> sids.enrollment + 1, challengeId |-> req[p].id,
                                   userId |-> req[p].user, score |-> score]}
             /\ sids' = [sids EXCEPT !.enrollment = @ + 1]
  /\ Set(p, Finish(req[p], "ok"))
  /\ UNCHANGED <<dbvars, now, foodvars, posts, likes, comments, friends, challenges>>

ChallengeUsers == {0, TheUser}
Slugs == DefaultSlugs \cup {"other"}
Scores == {Null} \cup {Some(n) : n \in 0..MaxScore}

\* one request at a time on an empty store: the three challenge endpoints
NextChallenge ==
  \E p \in SeqProcs :
    \/ \E u \in ChallengeUsers : getChallenges(p, u)
    \/ EnsureFind(p)
    \/ EnsureCreate(p)
    \/ ChallengesFind(p)
    \/ \E u \in ChallengeUsers, slug \in Slugs : enrollChallenge(p, u, slug)
    \/ \E u \in ChallengeUsers, slug \in Slugs, score \in Scores :
         updateChallengeProgress(p, u, slug, score)
    \/ ChallengeFind(p)
    \/ EnrollmentUpsert(p)

SpecChallenge == Init /\ [][NextChallenge]_vars

ChildMutators ==
  {"addMeal", "addWaterEntry", "addWorkout", "updateMeal", "deleteMeal",
   "updateWorkout", "deleteWorkout"}

\* C29: no step of addMeal, addWaterEntry, addWorkout, updateMeal, deleteMeal,
\* updateWorkout or deleteWorkout changes a fasting session.
C29_MutatorsKeepSession ==
  [][\A p \in SeqProcs :
       (req[p].op \in ChildMutators /\ req[p].pc \notin {"idle", "done"}) =>
         sessions' = sessions]_vars

\* the four update and delete handlers, which do not read the day through
\* getDailyHealthData, change no fasting session
EditorsKeepSession ==
  [][\A p \in SeqProcs :
       (req[p].op \in ChildMutators \ AddOps /\ req[p].pc \notin {"idle", "done"}) =>
         sessions' = sessions]_vars

ChallengeOps == {"enrollChallenge", "updateChallengeProgress"}

\* C30: an enroll or updateProgress request that reaches the service succeeds
\* when its slug is one of the default catalog, whatever was called before, and
\* ends with 404 NOT_FOUND only when its slug is outside the catalog.
C30_DefaultSlugsSucceed ==
  [][\A p \in SeqProcs :
       (/\ req[p].op \in ChallengeOps /\ req[p].pc = "challengeFind") =>
         IF Val(req[p].query) \in DefaultSlugs
         THEN req'[p].result # "404 NOT_FOUND"
         ELSE req'[p].result = "404 NOT_FOUND"]_vars

\* what the lookup does instead: 404 NOT_FOUND exactly when no challenge row
\* carries the slug, so a default slug is found once listChallenges has run
NotFoundIffNoRow ==
  [][\A p \in SeqProcs :
       (/\ req[p].op \in ChallengeOps /\ req[p].pc = "challengeFind") =>
         (req'[p].result = "404 NOT_FOUND" <=> ChallengeBySlug(Val(req[p].query)) = {})]_vars

====
